---- MODULE Spec2Model ----
(***************************************************************************)
(* Spray scheduling core of the onyx control system                        *)
(* (onyx/src/components/crop_bed/actuating/power.rs).                       *)
(*                                                                         *)
(* Time is an integer count of clock ticks; one microsecond is             *)
(* TicksPerMicro ticks, so that chrono's truncating num_microseconds() is   *)
(* a real conversion.  Utc::now() and Instant::now() both read `clock`.     *)
(***************************************************************************)
EXTENDS Integers, Sequences, FiniteSets, TLC

\* ------------------------------------------------------------------------
\* Bounds of the model
\* ------------------------------------------------------------------------
\* Resolution of the model clock: ticks per microsecond.
TicksPerMicro == 10
\* Horizon of the model clock, in milliseconds.
MaxTimeMs == 1300
\* Number of spray commands that pass the staleness check in one behaviour.
MaxTasks == 1

\* ------------------------------------------------------------------------
\* Program constants
\* ------------------------------------------------------------------------
\* const SPRAY_BOUND: i64 = 5 (microseconds).
SPRAY_BOUND == 5
\* Duration::seconds(1): commands longer than this are padded.
PAD_THRESHOLD_MS == 1000
\* Duration::milliseconds(100): distance of the padded "on" entries.
PAD_STEP_MS == 100
\* tokio::time::Duration::from_millis(500): heartbeat period.
HEARTBEAT_MS == 500
\* PGN of every actuation frame.
PGN == 17
\* Channels per PDM block (1-12, 13-24).
BLOCK == 12

Micros(n) == n * TicksPerMicro
Millis(n) == n * 1000 * TicksPerMicro

\* ------------------------------------------------------------------------
\* State
\* ------------------------------------------------------------------------
VARIABLES
    clock,        \* current time (Utc::now / Instant::now), in ticks
    pdms,         \* CropBedPower.pdms: the configured PDM indices
    channel_map,  \* CropBedPower.channel_map: Option of physical -> <<wired, pdm>>
    queue,        \* CropBedPower.message_queue: the set of queued WeedQueueMessages
    holder,       \* owner of the Mutex<CropBedPower>: "none" or "fire"
    pc,           \* position of the firing task
    message,      \* entry peeked by the firing task in this iteration
    utc_now,      \* Utc::now() sampled by the firing task in this iteration
    last_fire,    \* last_fire of the firing task
    sent,         \* frames passed to actuate_channels in the current iteration
    pdm_last_rx,  \* per PDM: time of the last frame it was sent
    tasks,        \* messages of the handle_connection tasks waiting for the mutex
    spawned,      \* number of handle_connection tasks that reached the mutex
    log,          \* kinds of lines printed by handle_connection tasks so far
    ticked,       \* the clock has moved since the firing task's last step
    energised,    \* <<pdm, channel>> pairs whose last actuate_channels duty is 100
    fired,        \* the entry actuated last (NoMessage before the first)
    fired_max,    \* the greatest time_to_fire of the entries actuated so far
    inserting,    \* the handle_connection task inside its critical section
    start_pc,     \* position of `start` in the spray core and in the lighting core
    initialised,  \* per core and PDM: the driver calls made by Pdm::initialise
    light_sent,   \* frames passed to actuate_channels by the lighting core
    light,        \* the lighting core's mutex and its handle_connection tasks
    conns,        \* the spray listener's connections and their handlers
    workers,      \* the CameraController::start thread of every camera
    barrier,      \* the std::sync::Barrier shared by the camera workers
    stop_signal,  \* the AtomicBool that ends the capture loops
    channel,      \* the mpsc channel of DevicePayloads and its Senders
    writer,       \* the writer thread and its ring buffer of JoinHandles
    writes,       \* the image-writing threads spawned by the writer
    build,        \* OnyxCamera::build_from_config: its position and the settings applied
    codec,        \* a configuration, its YAML document and the configuration parsed from it
    waiters       \* the wait queue of the Mutex<CropBedPower>, oldest request first

\* The start-up of the two cores and the output of the lighting core.
boot == <<start_pc, initialised, light_sent>>

\* The camera array: its workers and its writer.
array == <<workers, barrier, stop_signal, channel, writer, writes>>

\* The construction of a camera, the configuration files, and the wait queue
\* of the spray core's mutex.
setup == <<build, codec, waiters>>

\* The connection handlers of the two cores, the camera array and the set-up.
rest == <<light, conns, array, setup>>

vars == <<clock, pdms, channel_map, queue, holder, pc, message, utc_now,
          last_fire, sent, pdm_last_rx, tasks, spawned, log, ticked,
          energised, fired,
                   fired_max, inserting,
                   boot, rest>>

NoMap == [some |-> FALSE, entries |-> << >>]
SomeMap(f) == [some |-> TRUE, entries |-> f]
NoMessage == [none |-> TRUE]
\* No handle_connection task holds the guard.
Idle == [active |-> FALSE, todo |-> << >>]
Malformed == [malformed |-> TRUE]
\* The lighting core before its listener has accepted a connection: the
\* Mutex<CropBedPower> is free (holder 0) and no handle_connection task runs.
LightIdle == [holder |-> 0, conns |-> << >>]
\* A camera array that has not been started.
ArrayIdle ==
    /\ workers = << >>
    /\ barrier = [num_threads |-> 0, count |-> 0, generation_id |-> 0]
    /\ stop_signal = FALSE
    /\ channel = [senders |-> {}, payloads |-> << >>]
    /\ writer = [pc |-> "unspawned", handles |-> << >>]
    /\ writes = [running |-> {}, saved |-> {}]
\* No camera is being built and no configuration file is read or written.
SetupIdle ==
    /\ build = [pc |-> "idle"]
    /\ codec = [pc |-> "idle"]
    /\ waiters = << >>
\* The parts of the program that are not running.
RestIdle ==
    /\ light = LightIdle
    /\ conns = << >>
    /\ ArrayIdle
    /\ SetupIdle

\* ------------------------------------------------------------------------
\* Inbound messages (one newline-framed JSON document per connection)
\* ------------------------------------------------------------------------
WeedMessage(chs, start, end) ==
    [channels_to_open |-> chs, start_spray_time |-> start, end_spray_time |-> end]

\* Messages of the scheduling scenarios: a zero-length spray over both PDMs,
\* a 600 ms spray of one channel of the second PDM, and a line that is not a
\* WeedMessage.
Inbound ==
    { WeedMessage(<<0, 12, 13>>, Millis(200), Millis(200)),
      WeedMessage(<<12>>, Millis(200), Millis(800)),
      Malformed }

\* A padded spray of one channel of the first PDM.
LongSpray == WeedMessage(<<0>>, Millis(100), Millis(1200))

\* Channel maps a crop bed may be configured with: none, or the wiring of
\* crop bed 1 (physical 1..14 -> wired 11..24).
HarnessMap == [p \in 1..14 |-> <<p + 10, IF p <= 2 THEN 0 ELSE 1>>]
ChannelMaps == { NoMap, SomeMap(HarnessMap) }
PdmConfigs == SUBSET {0, 1}

\* ------------------------------------------------------------------------
\* handle_connection: remapping and padding
\* ------------------------------------------------------------------------
\* A value as a u8: `channel + 1` of a build without overflow checks wraps.
U8(n) == n % 256

\* `channel + 1` exceeds u8::MAX for some channel: a build with overflow
\* checks panics there, a build without them goes on with 0.
Overflows(chs) == \E i \in 1..Len(chs) : chs[i] + 1 > 255

\* `channel_map.get(&(channel + 1)).expect("No channel map")` fails.
MapMiss(chs, map) ==
    /\ map.some
    /\ \E i \in 1..Len(chs) : U8(chs[i] + 1) \notin DOMAIN map.entries

\* Variant of the remapping that does not look at the channel map.
RemapIgnoresMap(chs, map) == [i \in 1..Len(chs) |-> chs[i] + 1]

\* The `for channel in message.channels_to_open` loop.
Remap(chs, map) ==
    [i \in 1..Len(chs) |->
        IF map.some THEN map.entries[U8(chs[i] + 1)][1] ELSE U8(chs[i] + 1)]

WeedQueueMessage(chs, t, on, m) ==
    [channels |-> chs, time_to_fire |-> t, is_on |-> on,
     original_spray_starts |-> m.start_spray_time,
     original_spray_ending |-> m.end_spray_time]

\* Variant of the padding loop whose first pulse is at the start time itself.
RECURSIVE PowerOnsFromStart(_, _, _, _)
PowerOnsFromStart(chs, m, time_to_fire, delta) ==
    IF delta > Millis(PAD_STEP_MS)
    THEN { WeedQueueMessage(chs, time_to_fire, TRUE, m) }
         \cup PowerOnsFromStart(chs, m, time_to_fire + Millis(PAD_STEP_MS),
                                delta - Millis(PAD_STEP_MS))
    ELSE {}

\* Variant of the padding loop that runs while delta >= 100 ms.
RECURSIVE PowerOnsInclusive(_, _, _, _)
PowerOnsInclusive(chs, m, time_to_fire, delta) ==
    IF delta >= Millis(PAD_STEP_MS)
    THEN { WeedQueueMessage(chs, time_to_fire + Millis(PAD_STEP_MS), TRUE, m) }
         \cup PowerOnsInclusive(chs, m, time_to_fire + Millis(PAD_STEP_MS),
                                delta - Millis(PAD_STEP_MS))
    ELSE {}

\* The `while delta > Duration::milliseconds(100)` loop: the entries it pushes.
RECURSIVE PowerOns(_, _, _, _)
PowerOns(chs, m, time_to_fire, delta) ==
    IF delta > Millis(PAD_STEP_MS)
    THEN { WeedQueueMessage(chs, time_to_fire + Millis(PAD_STEP_MS), TRUE, m) }
         \cup PowerOns(chs, m, time_to_fire + Millis(PAD_STEP_MS),
                       delta - Millis(PAD_STEP_MS))
    ELSE {}

\* `delta > Duration::seconds(1)`.
IsLong(delta) == delta > Millis(PAD_THRESHOLD_MS)

\* All entries handle_connection passes to add_to_message_queue for m.
QueueEntries(m, map) ==
    LET chs   == Remap(m.channels_to_open, map)
        delta == m.end_spray_time - m.start_spray_time
    IN  IF IsLong(delta)
        THEN PowerOns(chs, m, m.start_spray_time, delta)
             \cup { WeedQueueMessage(chs, m.end_spray_time, FALSE, m) }
        ELSE { WeedQueueMessage(chs, m.start_spray_time, TRUE, m),
               WeedQueueMessage(chs, m.end_spray_time, FALSE, m) }

\* DoublePriorityQueue::push of every entry: an item equal to a queued item
\* replaces it (its priority is always its own time_to_fire).
add_to_message_queue(q, entries) == q \cup entries

\* Variant of the staleness check that accepts a command starting now.
IsFreshInclusive(m, now) == m.start_spray_time >= now

\* `message.start_spray_time > Utc::now()`.
IsFresh(m, now) == m.start_spray_time > now

\* ------------------------------------------------------------------------
\* process_message_queue: peek, bound check, partition
\* ------------------------------------------------------------------------
\* DoublePriorityQueue::peek_min: an entry of minimal priority.
PeekMin(q) == { e \in q : \A o \in q : e.time_to_fire <= o.time_to_fire }

\* Variant of the conversion that rounds up to whole microseconds.
NumMicrosecondsRoundedUp(d) == (d + TicksPerMicro - 1) \div TicksPerMicro

\* chrono Duration::num_microseconds of a non-negative duration: truncation.
NumMicroseconds(d) == d \div TicksPerMicro

\* Variant of the expiry test that lets an entry be up to one second late.
IsPastLenient(priority, now) == priority + Millis(PAD_THRESHOLD_MS) < now

\* `*priority < utc_now`.
IsPast(priority, now) == priority < now

\* `delta_t < SPRAY_BOUND`.
WithinBound(priority, now) == NumMicroseconds(priority - now) < SPRAY_BOUND

Pwm(is_on) == IF is_on THEN 100 ELSE 0

Frame(pdm, chs, duty) == [pdm |-> pdm, pgn |-> PGN, channels |-> chs, duty |-> duty]

\* Variant of the partition predicate with a strict comparison.
InFirstBlockStrict(x) == x < BLOCK

\* The closure `|x| (*x <= 12)`.
InFirstBlock(x) == x <= BLOCK

\* Iterator::partition: the elements for which the closure holds, and the rest.
PartitionLow(chs) == SelectSeq(chs, LAMBDA x : InFirstBlock(x))
PartitionHigh(chs) == SelectSeq(chs, LAMBDA x : ~InFirstBlock(x))

\* Variant of the single-channel branch that keeps the channel number of
\* the second block as it is.
SingleChannelFramesNoOffset(m, P) ==
    IF m.channels[1] <= BLOCK
    THEN IF 0 \in P THEN << Frame(0, << m.channels[1] >>, Pwm(m.is_on)) >> ELSE << >>
    ELSE IF 1 \in P THEN << Frame(1, << m.channels[1] >>, Pwm(m.is_on)) >>
         ELSE << >>

\* The `message.channels.len() == 1` branch.
SingleChannelFrames(m, P) ==
    IF m.channels[1] <= BLOCK
    THEN IF 0 \in P THEN << Frame(0, << m.channels[1] >>, Pwm(m.is_on)) >> ELSE << >>
    ELSE IF 1 \in P THEN << Frame(1, << m.channels[1] - BLOCK >>, Pwm(m.is_on)) >>
         ELSE << >>

\* The partition branch.
PartitionFrames(m, P) ==
    LET pdm_0 == PartitionLow(m.channels)
        pdm_1 == PartitionHigh(m.channels)
    IN  (IF pdm_0 # << >> /\ 0 \in P
         THEN << Frame(0, pdm_0, Pwm(m.is_on)) >> ELSE << >>)
        \o
        (IF pdm_1 # << >> /\ 1 \in P
         THEN << Frame(1, [i \in 1..Len(pdm_1) |-> pdm_1[i] - BLOCK], Pwm(m.is_on)) >>
         ELSE << >>)

\* Frames issued for a due entry.
FireFrames(m, P) ==
    IF Len(m.channels) = 1 THEN SingleChannelFrames(m, P) ELSE PartitionFrames(m, P)

\* Frames of the heartbeat.
HeartbeatChannels == [i \in 1..BLOCK |-> i]
HeartbeatFrames(P) ==
    (IF 0 \in P THEN << Frame(0, HeartbeatChannels, 0) >> ELSE << >>)
    \o (IF 1 \in P THEN << Frame(1, HeartbeatChannels, 0) >> ELSE << >>)

\* Variant of the heartbeat condition that holds at exactly 500 ms.
HeartbeatDueInclusive(last, now) == now - last >= Millis(HEARTBEAT_MS)

\* `last_fire.elapsed() > Duration::from_millis(500)`.
HeartbeatDue(last, now) == now - last > Millis(HEARTBEAT_MS)

\* The PDMs named by a sequence of frames.
FramePdms(frames) == { frames[i].pdm : i \in 1..Len(frames) }
Received(rx, frames, now) ==
    [p \in DOMAIN rx |-> IF p \in FramePdms(frames) THEN now ELSE rx[p]]

\* The <<pdm, channel>> pairs that a sequence of frames sets to the duty.
Named(frames, duty) ==
    UNION { { <<frames[i].pdm, frames[i].channels[j]>> :
                j \in 1..Len(frames[i].channels) } :
            i \in { k \in 1..Len(frames) : frames[k].duty = duty } }

\* actuate_channels of every frame: the named channels take the duty of the
\* frame, every other channel keeps the duty it was last sent.
Actuated(en, frames) == (en \ Named(frames, 0)) \cup Named(frames, 100)

\* The driver calls of Pdm::initialise, in their order.
InitCalls ==
    << "set_interface", "configure_output_function", "configure_output_channels" >>

\* ------------------------------------------------------------------------
\* Time
\* ------------------------------------------------------------------------
\* Instants the clock visits: every 100 ms, and around each of them the
\* instants 5 us before, just inside the bound, and one tick after.
Offsets == { 0 - Micros(SPRAY_BOUND), 1 - Micros(SPRAY_BOUND), 0, 1 }
TimePoints ==
    { Millis(100 * k) + o : k \in 0..(MaxTimeMs \div 100), o \in Offsets }

\* The clock moves to the next instant.  The firing task spins: each of its
\* steps takes at most one such move of the clock.
Tick ==
    /\ ~ticked
    /\ ticked' = TRUE
    /\ \E t \in TimePoints :
          /\ t > clock
          /\ \A u \in TimePoints : u > clock => t <= u
          /\ clock' = t
    /\ UNCHANGED <<pdms, channel_map, queue, holder, pc, message, utc_now,
                   last_fire, sent, pdm_last_rx, tasks, spawned, log,
                   energised, fired,
                   fired_max, inserting,
                   boot, rest>>

\* ------------------------------------------------------------------------
\* Initial state: CropBedPowerController::start has initialised every PDM,
\* bound the listener and spawned the firing task.
\* ------------------------------------------------------------------------
StartedCore(now, P, map, q, n) ==
    /\ clock = now
    /\ pdms = P
    /\ channel_map = map
    /\ queue = q
    /\ holder = "none"
    /\ pc = "lock"
    /\ message = NoMessage
    /\ utc_now = 0
    /\ last_fire = clock
    /\ sent = << >>
    /\ pdm_last_rx = [p \in pdms |-> clock]
    /\ tasks = << >>
    /\ spawned = n
    /\ log = {}
    /\ ticked = FALSE
    /\ energised = {}
    /\ fired = NoMessage
    /\ fired_max = 0
    /\ inserting = Idle
    /\ start_pc = [spray |-> "accept", light |-> "accept"]
    /\ initialised = [spray |-> [p \in P |-> InitCalls],
                      light |-> [p \in {0} |-> InitCalls]]
    /\ light_sent = << >>

\* The two cores started, with nothing else of the program running.
Started(now, P, map, q, n) == StartedCore(now, P, map, q, n) /\ RestIdle

Startup(now, P, map) == Started(now, P, map, {}, 0)

\* The scheduling scenarios run on a crop bed with both PDMs and no map.
Init == Startup(0, {0, 1}, NoMap)

\* ------------------------------------------------------------------------
\* Firing task: loop { lock; process_message_queue; drop }
\* ------------------------------------------------------------------------
\* `power_processing.lock().await`
Lock ==
    /\ ticked' = FALSE
    /\ pc = "lock"
    /\ holder = "none"
    /\ holder' = "fire"
    /\ pc' = "peek"
    /\ sent' = << >>
    /\ UNCHANGED <<clock, pdms, channel_map, queue, message, utc_now,
                   last_fire, pdm_last_rx, tasks, spawned, log, energised,
                   fired,
                   fired_max, inserting,
                   boot, rest>>

\* Variant of the entry step that leaves an entry of the past in the queue.
PeekKeepsPast ==
    /\ ticked' = FALSE
    /\ pc = "peek"
    /\ IF queue = {}
       THEN /\ pc' = "heartbeat"
            /\ UNCHANGED <<queue, message, utc_now>>
       ELSE \E e \in PeekMin(queue) :
              /\ utc_now' = clock
              /\ IF IsPast(e.time_to_fire, clock)
                 THEN /\ pc' = "heartbeat"
                      /\ UNCHANGED <<queue, message>>
                 ELSE IF WithinBound(e.time_to_fire, clock)
                 THEN /\ message' = e
                      /\ pc' = "send"
                      /\ UNCHANGED queue
                 ELSE /\ pc' = "heartbeat"
                      /\ UNCHANGED <<queue, message>>
    /\ UNCHANGED <<clock, pdms, channel_map, holder, last_fire, sent,
                   pdm_last_rx, tasks, spawned, log, energised, fired,
                   fired_max, inserting,
                   boot, rest>>

\* peek_min, Utc::now(), and the choice between discard, fire and leave.
Peek ==
    /\ ticked' = FALSE
    /\ pc = "peek"
    /\ IF queue = {}
       THEN /\ pc' = "heartbeat"
            /\ UNCHANGED <<queue, message, utc_now>>
       ELSE \E e \in PeekMin(queue) :
              /\ utc_now' = clock
              /\ IF IsPast(e.time_to_fire, clock)
                 THEN /\ queue' = queue \ {e}
                      /\ pc' = "heartbeat"
                      /\ UNCHANGED message
                 ELSE IF WithinBound(e.time_to_fire, clock)
                 THEN /\ message' = e
                      /\ pc' = "send"
                      /\ UNCHANGED queue
                 ELSE /\ pc' = "heartbeat"
                      /\ UNCHANGED <<queue, message>>
    /\ UNCHANGED <<clock, pdms, channel_map, holder, last_fire, sent,
                   pdm_last_rx, tasks, spawned, log, energised, fired,
                   fired_max, inserting,
                   boot, rest>>

\* actuate_channels for the due entry, last_fire = Instant::now(), pop_min.
Send ==
    /\ ticked' = FALSE
    /\ pc = "send"
    /\ sent' = sent \o FireFrames(message, pdms)
    /\ pdm_last_rx' = Received(pdm_last_rx, FireFrames(message, pdms), clock)
    /\ energised' = Actuated(energised, FireFrames(message, pdms))
    /\ fired' = message
    /\ fired_max' = IF message.time_to_fire > fired_max
                    THEN message.time_to_fire ELSE fired_max
    /\ last_fire' = clock
    /\ queue' = queue \ {message}
    /\ message' = NoMessage
    /\ pc' = "heartbeat"
    /\ UNCHANGED <<clock, pdms, channel_map, holder, utc_now, tasks, spawned,
                   log, inserting, boot, rest>>

\* `if last_fire.elapsed() > 500 ms`; when false the iteration ends and the
\* guard is dropped.
HeartbeatCheck ==
    /\ ticked' = FALSE
    /\ pc = "heartbeat"
    /\ IF HeartbeatDue(last_fire, clock)
       THEN /\ pc' = "beat"
            /\ UNCHANGED <<holder, utc_now>>
       ELSE /\ pc' = "lock"
            /\ holder' = "none"
            /\ utc_now' = 0
    /\ UNCHANGED <<clock, pdms, channel_map, queue, message, last_fire, sent,
                   pdm_last_rx, tasks, spawned, log, energised, fired,
                   fired_max, inserting,
                   boot, rest>>

\* Variant of the heartbeat that does not record the time of the heartbeat.
BeatKeepsLastFire ==
    /\ ticked' = FALSE
    /\ pc = "beat"
    /\ sent' = sent \o HeartbeatFrames(pdms)
    /\ pdm_last_rx' = Received(pdm_last_rx, HeartbeatFrames(pdms), clock)
    /\ energised' = Actuated(energised, HeartbeatFrames(pdms))
    /\ pc' = "lock"
    /\ holder' = "none"
    /\ utc_now' = 0
    /\ UNCHANGED <<clock, pdms, channel_map, queue, message, tasks, spawned,
                   log, last_fire, fired, fired_max, inserting,
                   boot, rest>>

\* The heartbeat frames, last_fire = Instant::now(); the iteration ends.
Beat ==
    /\ ticked' = FALSE
    /\ pc = "beat"
    /\ sent' = sent \o HeartbeatFrames(pdms)
    /\ pdm_last_rx' = Received(pdm_last_rx, HeartbeatFrames(pdms), clock)
    /\ energised' = Actuated(energised, HeartbeatFrames(pdms))
    /\ last_fire' = clock
    /\ pc' = "lock"
    /\ holder' = "none"
    /\ utc_now' = 0
    /\ UNCHANGED <<clock, pdms, channel_map, queue, message, tasks, spawned,
                   log, fired, fired_max, inserting,
                   boot, rest>>

\* ------------------------------------------------------------------------
\* Ingestion: accept + handle_connection
\* ------------------------------------------------------------------------
\* A connection is accepted and its line read and parsed.  A line that is
\* not a WeedMessage, or a message that is not fresh, is logged and the task
\* ends; otherwise the task goes on to `power.lock().await`.
Receive(m, limit) ==
    /\ IF m = Malformed
       THEN /\ log' = log \cup {"malformed"}
            /\ UNCHANGED <<tasks, spawned>>
       ELSE IF IsFresh(m, clock)
       THEN /\ spawned < limit
            /\ spawned' = spawned + 1
            /\ tasks' = Append(tasks, m)
            /\ UNCHANGED log
       ELSE /\ log' = log \cup {"ignored"}
            /\ UNCHANGED <<tasks, spawned>>
    /\ UNCHANGED <<clock, pdms, channel_map, queue, holder, pc, message,
                   utc_now, last_fire, sent, pdm_last_rx, ticked, energised,
                   fired,
                   fired_max, inserting,
                   boot, rest>>

Remove(seq, i) == SubSeq(seq, 1, i - 1) \o SubSeq(seq, i + 1, Len(seq))

\* `power.lock().await` to `drop(gaurd)`: remap, pad and push, in one
\* critical section, after which the task ends.  A channel-map miss panics
\* the task, and so does an overflow of `channel + 1` when the build checks
\* overflow; the guard is released by the unwinding.
Enqueue(i) ==
    /\ holder = "none"
    /\ \E checked \in IF Overflows(tasks[i].channels_to_open)
                      THEN BOOLEAN ELSE {FALSE} :
          IF checked \/ MapMiss(tasks[i].channels_to_open, channel_map)
          THEN /\ log' = log \cup {"panicked"}
               /\ UNCHANGED queue
          ELSE /\ queue' = add_to_message_queue(queue,
                               QueueEntries(tasks[i], channel_map))
               /\ UNCHANGED log
    /\ tasks' = Remove(tasks, i)
    /\ UNCHANGED <<clock, pdms, channel_map, holder, pc, message, utc_now,
                   last_fire, sent, pdm_last_rx, spawned, ticked, energised,
                   fired,
                   fired_max, inserting,
                   boot, rest>>

Ingest == \E m \in Inbound : Receive(m, MaxTasks)
Insert == \E i \in 1..Len(tasks) : Enqueue(i)

Next ==
    \/ Tick
    \/ Lock
    \/ Peek
    \/ Send
    \/ HeartbeatCheck
    \/ Beat
    \/ Ingest
    \/ Insert

Spec == Init /\ [][Next]_vars

\* ------------------------------------------------------------------------
\* Two commands, ingested at any time while the firing task runs.
\* ------------------------------------------------------------------------
\* Number of commands that pass the staleness check in one such behaviour.
MaxPairTasks == 2

IngestPair == \E m \in Inbound \ { Malformed } : Receive(m, MaxPairTasks)

NextPair ==
    \/ Tick
    \/ Lock
    \/ Peek
    \/ Send
    \/ HeartbeatCheck
    \/ Beat
    \/ IngestPair
    \/ Insert

SpecPair == Init /\ [][NextPair]_vars

\* ------------------------------------------------------------------------
\* The padded spray on its own, with the firing task running.
\* ------------------------------------------------------------------------
\* Number of times the padded spray passes the staleness check.
MaxLongTasks == 1

IngestLong == Receive(LongSpray, MaxLongTasks)

NextLong ==
    \/ Tick
    \/ Lock
    \/ Peek
    \/ Send
    \/ HeartbeatCheck
    \/ Beat
    \/ IngestLong
    \/ Insert

SpecLong == Init /\ [][NextLong]_vars

\* The padded spray with a firing task that is never suspended for ever: the
\* runtime keeps polling it and the mutex is granted in the order of the
\* requests.
FiringRuns ==
    /\ WF_vars(Lock)
    /\ WF_vars(Peek)
    /\ WF_vars(Send)
    /\ WF_vars(HeartbeatCheck)
    /\ WF_vars(Beat)

SpecLongFair == SpecLong /\ FiringRuns

\* ------------------------------------------------------------------------
\* The critical section of handle_connection step by step: the guard is
\* taken, the entries are pushed one at a time, the guard is dropped.  The
\* firing task runs beside it.
\* ------------------------------------------------------------------------
\* The entries of a command in the order of their add_to_message_queue calls:
\* the "on" entries by increasing time_to_fire, then the "off" entry.
RECURSIVE Ascending(_)
Ascending(S) ==
    IF S = {} THEN << >>
    ELSE LET e == CHOOSE x \in S : \A y \in S : x.time_to_fire <= y.time_to_fire
         IN  << e >> \o Ascending(S \ {e})
PushOrder(m, map) ==
    Ascending({ e \in QueueEntries(m, map) : e.is_on })
    \o Ascending({ e \in QueueEntries(m, map) : ~e.is_on })

\* Variant of the acquisition that does not wait for the guard to be free.
TaskLockNoWait(i) ==
    /\ ~inserting.active
    /\ tasks' = Remove(tasks, i)
    /\ IF MapMiss(tasks[i].channels_to_open, channel_map)
       THEN /\ log' = log \cup {"panicked"}
            /\ UNCHANGED <<holder, inserting>>
       ELSE /\ holder' = "task"
            /\ inserting' = [active |-> TRUE,
                             todo |-> PushOrder(tasks[i], channel_map)]
            /\ UNCHANGED log
    /\ UNCHANGED <<clock, pdms, channel_map, queue, pc, message, utc_now,
                   last_fire, sent, pdm_last_rx, spawned, ticked, energised,
                   fired, fired_max, boot, rest>>

\* `power.lock().await` and the remapping loop.  A channel-map miss panics
\* the task, which releases the guard.
TaskLock(i) ==
    /\ holder = "none"
    /\ tasks' = Remove(tasks, i)
    /\ IF MapMiss(tasks[i].channels_to_open, channel_map)
       THEN /\ log' = log \cup {"panicked"}
            /\ UNCHANGED <<holder, inserting>>
       ELSE /\ holder' = "task"
            /\ inserting' = [active |-> TRUE,
                             todo |-> PushOrder(tasks[i], channel_map)]
            /\ UNCHANGED log
    /\ UNCHANGED <<clock, pdms, channel_map, queue, pc, message, utc_now,
                   last_fire, sent, pdm_last_rx, spawned, ticked, energised,
                   fired, fired_max, boot, rest>>

\* One `gaurd.add_to_message_queue(..)`.
TaskPush ==
    /\ inserting.active
    /\ inserting.todo # << >>
    /\ queue' = add_to_message_queue(queue, { Head(inserting.todo) })
    /\ inserting' = [inserting EXCEPT !.todo = Tail(inserting.todo)]
    /\ UNCHANGED <<clock, pdms, channel_map, holder, pc, message, utc_now,
                   last_fire, sent, pdm_last_rx, tasks, spawned, log, ticked,
                   energised, fired, fired_max, boot, rest>>

\* `drop(gaurd)`; the task ends.
TaskUnlock ==
    /\ inserting.active
    /\ inserting.todo = << >>
    /\ inserting' = Idle
    /\ holder' = "none"
    /\ UNCHANGED <<clock, pdms, channel_map, queue, pc, message, utc_now,
                   last_fire, sent, pdm_last_rx, tasks, spawned, log, ticked,
                   energised, fired, fired_max, boot, rest>>

Acquire == \E i \in 1..Len(tasks) : TaskLock(i)

NextMutex ==
    \/ Tick
    \/ Lock
    \/ Peek
    \/ Send
    \/ HeartbeatCheck
    \/ Beat
    \/ IngestLong
    \/ Acquire
    \/ TaskPush
    \/ TaskUnlock

SpecMutex == Init /\ [][NextMutex]_vars

\* ------------------------------------------------------------------------
\* A crop bed with or without the channel map of the wiring harness, with the
\* firing task running: commands over both PDMs, one of which names a
\* physical channel (15) that the map does not hold.
\* ------------------------------------------------------------------------
\* Number of commands that pass the staleness check in one such behaviour.
MaxMapTasks == 1

MapInbound ==
    { WeedMessage(<<0, 12, 13>>, Millis(200), Millis(300)),
      WeedMessage(<<13, 0, 13>>, Millis(200), Millis(300)),
      WeedMessage(<<1, 14>>, Millis(200), Millis(300)) }

InitMap == \E map \in ChannelMaps : Startup(0, {0, 1}, map)

IngestMap == \E m \in MapInbound : Receive(m, MaxMapTasks)

NextMap ==
    \/ Tick
    \/ Lock
    \/ Peek
    \/ Send
    \/ HeartbeatCheck
    \/ Beat
    \/ IngestMap
    \/ Insert

SpecMap == InitMap /\ [][NextMap]_vars

\* ------------------------------------------------------------------------
\* Start-up of the spray core and of the lighting core
\* (CropBedPowerController::start, CropBedLightingController::start), followed
\* by their operation.
\* ------------------------------------------------------------------------
\* Number of light messages applied in one behaviour.
MaxLightFrames == 1
\* Number of spray commands that pass the staleness check in one behaviour.
MaxStartTasks == 1

\* PDM sets of the two cores: the first PDM alone, or both.
StartPdmConfigs == { {0}, {0, 1} }
\* A spray over both PDMs.
StartSpray == WeedMessage(<<0, 12>>, Millis(100), Millis(200))

LightMessage(chs, on) == [channels |-> chs, is_on |-> on]
LightInbound == { LightMessage(<<7, 8, 9>>, TRUE), LightMessage(<<7, 8, 9>>, FALSE) }

\* Every PDM of the core has been through Pdm::initialise.
AllInitialised(core) ==
    \A p \in DOMAIN initialised[core] : initialised[core][p] = InitCalls

\* `for pdm in crop_bed_power.pdms.values_mut() { pdm.initialise(..).await }`:
\* the next driver call of the PDM being initialised; the loop takes up another
\* PDM only when the one before is complete.
Initialise(core, p) ==
    /\ start_pc[core] = "initialise"
    /\ Len(initialised[core][p]) < Len(InitCalls)
    /\ \A o \in DOMAIN initialised[core] :
          o # p => initialised[core][o] \in { << >>, InitCalls }
    /\ initialised' =
          [initialised EXCEPT
             ![core][p] = Append(@, InitCalls[Len(@) + 1])]
    /\ UNCHANGED <<clock, pdms, channel_map, queue, holder, pc, message,
                   utc_now, last_fire, sent, pdm_last_rx, tasks, spawned, log,
                   ticked, energised, fired, fired_max, inserting, start_pc,
                   light_sent, rest>>

\* Variant of the bind that does not wait for the initialisation loop.
BindEarly(core) ==
    /\ start_pc[core] = "initialise"
    /\ start_pc' = [start_pc EXCEPT ![core] = IF core = "spray" THEN "spawn"
                                              ELSE "accept"]
    /\ UNCHANGED <<clock, pdms, channel_map, queue, holder, pc, message,
                   utc_now, last_fire, sent, pdm_last_rx, tasks, spawned, log,
                   ticked, energised, fired, fired_max, inserting, initialised,
                   light_sent, rest>>

\* The initialisation loop has ended; `TcpListener::bind(..)`.
Bind(core) ==
    /\ start_pc[core] = "initialise"
    /\ AllInitialised(core)
    /\ start_pc' = [start_pc EXCEPT ![core] = IF core = "spray" THEN "spawn"
                                              ELSE "accept"]
    /\ UNCHANGED <<clock, pdms, channel_map, queue, holder, pc, message,
                   utc_now, last_fire, sent, pdm_last_rx, tasks, spawned, log,
                   ticked, energised, fired, fired_max, inserting, initialised,
                   light_sent, rest>>

\* `tokio::spawn` of the firing task, which takes last_fire = Instant::now().
Spawn ==
    /\ start_pc.spray = "spawn"
    /\ start_pc' = [start_pc EXCEPT !.spray = "accept"]
    /\ pc' = "lock"
    /\ last_fire' = clock
    /\ UNCHANGED <<clock, pdms, channel_map, queue, holder, message, utc_now,
                   sent, pdm_last_rx, tasks, spawned, log, ticked, energised,
                   fired, fired_max, inserting, initialised, light_sent, rest>>

\* Lighting handle_connection: a LightMessage is read and applied to PDM 0
\* under the guard.
LightActuate(m) ==
    /\ start_pc.light = "accept"
    /\ Len(light_sent) < MaxLightFrames
    /\ light_sent' =
          IF 0 \in DOMAIN initialised.light
          THEN Append(light_sent, Frame(0, m.channels, Pwm(m.is_on)))
          ELSE light_sent
    /\ UNCHANGED <<clock, pdms, channel_map, queue, holder, pc, message,
                   utc_now, last_fire, sent, pdm_last_rx, tasks, spawned, log,
                   ticked, energised, fired, fired_max, inserting, start_pc,
                   initialised, rest>>

InitStart ==
    \E P \in StartPdmConfigs, L \in StartPdmConfigs :
        /\ clock = 0
        /\ pdms = P
        /\ channel_map = NoMap
        /\ queue = {}
        /\ holder = "none"
        /\ pc = "unspawned"
        /\ message = NoMessage
        /\ utc_now = 0
        /\ last_fire = 0
        /\ sent = << >>
        /\ pdm_last_rx = [p \in P |-> 0]
        /\ tasks = << >>
        /\ spawned = 0
        /\ log = {}
        /\ ticked = FALSE
        /\ energised = {}
        /\ fired = NoMessage
        /\ fired_max = 0
        /\ inserting = Idle
        /\ start_pc = [spray |-> "initialise", light |-> "initialise"]
        /\ initialised = [spray |-> [p \in P |-> << >>],
                          light |-> [p \in L |-> << >>]]
        /\ light_sent = << >>
        /\ RestIdle

InitialisePdm ==
    \E core \in {"spray", "light"} :
        \E p \in DOMAIN initialised[core] : Initialise(core, p)
BindListener == \E core \in {"spray", "light"} : Bind(core)
\* The spray listener accepts connections once `start` has reached its loop.
IngestStarted == start_pc.spray = "accept" /\ Receive(StartSpray, MaxStartTasks)
\* Time is counted from the spawn of the firing task.
TickStarted == start_pc.spray = "accept" /\ Tick
Light == \E m \in LightInbound : LightActuate(m)

NextStart ==
    \/ InitialisePdm
    \/ BindListener
    \/ Spawn
    \/ TickStarted
    \/ Lock
    \/ Peek
    \/ Send
    \/ HeartbeatCheck
    \/ Beat
    \/ IngestStarted
    \/ Insert
    \/ Light

SpecStart == InitStart /\ [][NextStart]_vars

\* ------------------------------------------------------------------------
\* Ingestion on its own: a wide range of commands, with or without a channel
\* map, received at a time before, at or after their start time.
\* ------------------------------------------------------------------------
\* Number of commands that pass the staleness check in one such behaviour.
MaxWideTasks == 2

WideChannelLists == { <<0>>, <<0, 12, 13>> }
WideStart == Millis(100)
WideDurations ==
    { 0 - Millis(50), 0, Millis(100), Millis(PAD_THRESHOLD_MS),
      Millis(PAD_THRESHOLD_MS) + 1, Millis(1050), Millis(1100), Millis(2300) }
WideInbound ==
    { WeedMessage(chs, WideStart, WideStart + d) :
        chs \in WideChannelLists, d \in WideDurations } \cup { Malformed }
IngestClocks == { 0, WideStart - 1, WideStart, WideStart + 1 }

InitIngest ==
    \E now \in IngestClocks, map \in ChannelMaps : Startup(now, {0, 1}, map)

IngestWide == \E m \in WideInbound : Receive(m, MaxWideTasks)

NextIngest ==
    \/ IngestWide
    \/ Insert

SpecIngest == InitIngest /\ [][NextIngest]_vars

\* ------------------------------------------------------------------------
\* Firing on its own: one command of 100 ms, ingested at time 0, over a wide
\* range of channel lists, configured PDMs and channel maps.
\* ------------------------------------------------------------------------
FireChannelLists ==
    { <<0>>, <<11>>, <<12>>, <<23>>, <<0, 12, 13>>, <<13, 0>>, << >>,
      [i \in 1..(2 * BLOCK) |-> i - 1] }
FireInbound ==
    { WeedMessage(chs, Millis(100), Millis(200)) : chs \in FireChannelLists }

InitFire ==
    \E m \in FireInbound, P \in PdmConfigs, map \in ChannelMaps :
        /\ ~MapMiss(m.channels_to_open, map)
        /\ Started(0, P, map, QueueEntries(m, map), 1)

NextFire ==
    \/ Tick
    \/ Lock
    \/ Peek
    \/ Send
    \/ HeartbeatCheck
    \/ Beat

SpecFire == InitFire /\ [][NextFire]_vars

\* ========================================================================
\* Properties
\* ========================================================================
\* A step in which the task waiting at position i pushes its entries.
Enqueues(i) ==
    /\ i \in 1..Len(tasks)
    /\ tasks' = Remove(tasks, i)
    /\ ~MapMiss(tasks[i].channels_to_open, channel_map)

Delta(m) == m.end_spray_time - m.start_spray_time
OnEntry(m, t) ==
    [channels |-> Remap(m.channels_to_open, channel_map), time_to_fire |-> t,
     is_on |-> TRUE, original_spray_starts |-> m.start_spray_time,
     original_spray_ending |-> m.end_spray_time]
OffEntry(m, t) == [OnEntry(m, t) EXCEPT !.is_on = FALSE]
\* The queued entries that come from command m.
EntriesOf(q, m) ==
    { e \in q : /\ e.channels = Remap(m.channels_to_open, channel_map)
                /\ e.original_spray_starts = m.start_spray_time
                /\ e.original_spray_ending = m.end_spray_time }
CeilDiv(a, b) == (a + b - 1) \div b

\* C1: ingesting a command with start > now and end - start <= 1 s makes the
\* queue grow by exactly two entries, (channels, start, on) and
\* (channels, end, off), whatever the queue already contains.
C1_ShortCommandGrowsQueueByTwo ==
    [][\A i \in 1..Len(tasks) :
         (Enqueues(i) /\ Delta(tasks[i]) <= Millis(1000)) =>
            /\ Cardinality(queue') = Cardinality(queue) + 2
            /\ OnEntry(tasks[i], tasks[i].start_spray_time) \in queue'
            /\ OffEntry(tasks[i], tasks[i].end_spray_time) \in queue']_vars

\* C2: ingesting a command with D = end - start > 1 s enqueues "on" entries at
\* start + k * 100 ms for k = 1, 2, ... as long as D - (k - 1) * 100 ms exceeds
\* 100 ms, and exactly one "off" entry at end; every "on" entry is strictly
\* earlier than end and consecutive entries are at most 100 ms apart.
C2_Pulses(m) ==
    { k \in 1..(Delta(m) \div Millis(100) + 1) :
        Delta(m) - (k - 1) * Millis(100) > Millis(100) }
C2_Expected(m) ==
    { OnEntry(m, m.start_spray_time + k * Millis(100)) : k \in C2_Pulses(m) }
    \cup { OffEntry(m, m.end_spray_time) }
C2_LongCommandEntries ==
    [][\A i \in 1..Len(tasks) :
         (Enqueues(i) /\ Delta(tasks[i]) > Millis(1000)) =>
            LET m == tasks[i]
                new == EntriesOf(queue', m)
            IN  /\ queue' = queue \cup C2_Expected(m)
                /\ new = C2_Expected(m)
                /\ Cardinality({ e \in new : ~e.is_on }) = 1
                /\ \A e \in new : e.is_on => e.time_to_fire < m.end_spray_time
                /\ \A e \in new :
                     \/ e.time_to_fire = m.start_spray_time + Millis(100)
                     \/ \E f \in new :
                          /\ f.time_to_fire < e.time_to_fire
                          /\ e.time_to_fire - f.time_to_fire <= Millis(100)]_vars
\* A 2.3 s command has been ingested: its last pulse is queued.
C2_Witness ==
    \E e \in queue :
        /\ e.original_spray_ending - e.original_spray_starts = Millis(2300)
        /\ e.is_on
        /\ e.time_to_fire = e.original_spray_starts + Millis(2200)

\* C3 (as stated): a command with D > 1 s makes ceil((D - 1 s) / 100 ms) + 1
\* entries enter the queue.
C3_CountAsStated ==
    [][\A i \in 1..Len(tasks) :
         (Enqueues(i) /\ Delta(tasks[i]) > Millis(1000)) =>
            Cardinality(queue') - Cardinality(queue)
              = CeilDiv(Delta(tasks[i]) - Millis(1000), Millis(100)) + 1]_vars
\* C3 (amended): a command with D > 1 s pushes ceil(D / 100 ms) distinct
\* entries; right after its ingestion the queue holds that many entries of it.
C3_EntryCount ==
    [][\A i \in 1..Len(tasks) :
         (Enqueues(i) /\ Delta(tasks[i]) > Millis(1000)) =>
            Cardinality(EntriesOf(queue', tasks[i]))
              = CeilDiv(Delta(tasks[i]), Millis(100))]_vars
\* A 1.05 s command has been ingested: its 11 entries are queued.
C3_Witness ==
    \E e \in queue :
        /\ e.original_spray_ending - e.original_spray_starts = Millis(1050)
        /\ ~e.is_on
        /\ Cardinality({ f \in queue :
                           /\ f.channels = e.channels
                           /\ f.original_spray_starts = e.original_spray_starts
                           /\ f.original_spray_ending = e.original_spray_ending })
             = 11

\* C4: a message that fails to parse, or a command whose start_time <= now
\* at ingestion, leaves the queue as it was and issues no actuation, and the
\* core goes on accepting and firing: only a well-formed command with
\* start_time > now gets a task at the mutex, entries enter the queue only
\* from such a task, and the step that discards a message changes nothing
\* but the log.
C4_DiscardedMessageHasNoEffect ==
    [][/\ Len(tasks') > Len(tasks) =>
            /\ tasks'[Len(tasks')] # Malformed
            /\ tasks'[Len(tasks')].start_spray_time > clock
       /\ ~(queue' \subseteq queue) => \E i \in 1..Len(tasks) : Enqueues(i)
       /\ (log' # log /\ (log' \ log) \subseteq {"malformed", "ignored"}) =>
            UNCHANGED <<queue, sent, pdm_last_rx, last_fire, pc, holder,
                        message, tasks, spawned>>]_vars
\* A malformed line and a stale command were discarded, and an "on" entry of
\* an accepted command is being fired.
C4_Witness ==
    /\ {"malformed", "ignored"} \subseteq log
    /\ pc = "heartbeat"
    /\ sent # << >>
    /\ sent[1].duty = 100

\* C5: in one iteration, for the entry e of minimum fire_time and the time
\* now sampled in it: if e.fire_time < now, e is removed and nothing is
\* actuated; if 0 <= e.fire_time - now < 5 us, e is actuated under PGN 17
\* with duty 100 when is_on and 0 otherwise, e is removed and last_fire is
\* set; otherwise e stays queued and nothing is actuated.
MinFireTime(q) ==
    CHOOSE t \in { e.time_to_fire : e \in q } : \A e \in q : t <= e.time_to_fire
C5_FiringRule ==
    [][/\ (pc = "peek" /\ pc' # "peek" /\ queue # {}) =>
            IF MinFireTime(queue) < clock
            THEN /\ \E e \in queue : /\ e.time_to_fire = MinFireTime(queue)
                                     /\ queue' = queue \ {e}
                 /\ pc' = "heartbeat"
                 /\ UNCHANGED <<sent, last_fire, pdm_last_rx>>
            ELSE IF MinFireTime(queue) - clock < 5 * TicksPerMicro
            THEN /\ pc' = "send"
                 /\ message' \in queue
                 /\ message'.time_to_fire = MinFireTime(queue)
                 /\ utc_now' = clock
                 /\ UNCHANGED queue
            ELSE /\ pc' = "heartbeat"
                 /\ UNCHANGED <<queue, sent, last_fire, pdm_last_rx>>
       /\ (pc = "send" /\ pc' # "send") =>
            /\ message \in queue
            /\ 0 <= message.time_to_fire - utc_now
            /\ message.time_to_fire - utc_now < 5 * TicksPerMicro
            /\ queue' = queue \ {message}
            /\ last_fire' = clock'
            /\ Len(sent') > Len(sent)
            /\ \A k \in (Len(sent) + 1)..Len(sent') :
                 /\ sent'[k].pgn = 17
                 /\ sent'[k].duty = (IF message.is_on THEN 100 ELSE 0)
       /\ (pc # "send") => UNCHANGED sent \/ pc = "beat" \/ pc = "lock"]_vars
\* An "on" entry is about to be actuated 4.9 us before its fire_time.
C5_Witness ==
    /\ pc = "send"
    /\ message.is_on
    /\ message.time_to_fire - utc_now = 5 * TicksPerMicro - 1

\* The frames added to `sent` by the step.
NewFrames == SubSeq(sent', Len(sent) + 1, Len(sent'))
Elements(seq) == { seq[i] : i \in 1..Len(seq) }
\* The number of positions of seq that hold a member of S.
Count(seq, S) == Cardinality({ i \in 1..Len(seq) : seq[i] \in S })

\* C6: whenever an entry with channel list C is fired, PDM index 0 is sent
\* exactly the channels {c in C | c <= 12} and PDM index 1 exactly
\* {c - 12 | c in C, c > 12}; the two parts are disjoint and cover C, and a
\* PDM whose part is empty (or that is not configured) is sent nothing.
C6_Part(C, p) ==
    IF p = 0 THEN { c \in Elements(C) : c <= 12 }
    ELSE { c - 12 : c \in { x \in Elements(C) : x > 12 } }
C6_PartitionRule ==
    [][(pc = "send" /\ pc' # "send") =>
         /\ \A k \in 1..Len(NewFrames) : NewFrames[k].pdm \in {0, 1} \cap pdms
         /\ \A p \in {0, 1} :
              LET mine == { k \in 1..Len(NewFrames) : NewFrames[k].pdm = p }
              IN  IF p \in pdms /\ C6_Part(message.channels, p) # {}
                  THEN /\ Cardinality(mine) = 1
                       /\ \A k \in mine :
                            /\ Elements(NewFrames[k].channels)
                                 = C6_Part(message.channels, p)
                            /\ Len(NewFrames[k].channels)
                                 = Count(message.channels,
                                         IF p = 0 THEN 0..12 ELSE 13..255)
                  ELSE mine = {}
         /\ Count(message.channels, 0..12) + Count(message.channels, 13..255)
              = Len(message.channels)]_vars
\* Channels 1..24 have been fired: 1..12 went to PDM 0 and 13..24, as 1..12,
\* to PDM 1.
C6_Witness ==
    /\ pc = "heartbeat"
    /\ sent = << [pdm |-> 0, pgn |-> 17, duty |-> 100,
                  channels |-> <<1, 2, 3, 4, 5, 6, 7, 8, 9, 10, 11, 12>>],
                 [pdm |-> 1, pgn |-> 17, duty |-> 100,
                  channels |-> <<1, 2, 3, 4, 5, 6, 7, 8, 9, 10, 11, 12>>] >>

\* C7: for an entry with exactly one channel, the single-channel branch
\* issues the actuate calls the partition branch would issue: same PDM, same
\* channel after subtracting 12, same duty, for every set of configured PDMs.
C7_SingleChannelEquivalent ==
    [][(pc = "send" /\ pc' # "send" /\ Len(message.channels) = 1) =>
         NewFrames = PartitionFrames(message, pdms)]_vars
\* A single channel of the second block has been switched on through the
\* single-channel branch.
C7_Witness ==
    /\ pc = "heartbeat"
    /\ sent = << [pdm |-> 1, pgn |-> 17, duty |-> 100, channels |-> <<12>>] >>

\* C8: in an iteration in which, after the entry step, more than 500 ms have
\* elapsed since last_fire, both PDMs are sent actuate(17, 1..=12, 0.0) and
\* last_fire is reset to now; when 500 ms or less have elapsed no heartbeat
\* is sent.
C8_HeartbeatFrame(p) ==
    [pdm |-> p, pgn |-> 17, duty |-> 0,
     channels |-> <<1, 2, 3, 4, 5, 6, 7, 8, 9, 10, 11, 12>>]
C8_Heartbeat ==
    [][/\ (pc = "heartbeat" /\ pc' # "heartbeat") =>
            IF clock - last_fire > 500 * 1000 * TicksPerMicro
            THEN pc' = "beat" /\ holder' = holder
            ELSE pc' = "lock" /\ UNCHANGED <<sent, last_fire, pdm_last_rx>>
       /\ (pc = "beat" /\ pc' # "beat") =>
            /\ NewFrames = << C8_HeartbeatFrame(0), C8_HeartbeatFrame(1) >>
            /\ last_fire' = clock'
            /\ pc' = "lock"
       /\ (pc' = "beat") => clock' - last_fire' > 500 * 1000 * TicksPerMicro
       /\ (\E k \in 1..Len(NewFrames) : Len(NewFrames[k].channels) = 12
                                         /\ NewFrames[k].duty = 0)
            => pc = "beat"]_vars
\* An iteration has just ended with a heartbeat on both PDMs.
C8_Witness ==
    /\ pc = "lock"
    /\ last_fire = clock
    /\ sent = << C8_HeartbeatFrame(0), C8_HeartbeatFrame(1) >>

\* C9: at the end of every iteration of the firing loop now - last_fire is
\* at most 500 ms; last_fire is updated on every entry that is fired and on
\* every heartbeat.
C9_LastFireFresh ==
    [][/\ (pc # "lock" /\ pc' = "lock") =>
            clock' - last_fire' <= 500 * 1000 * TicksPerMicro
       /\ (pc = "send" /\ pc' # "send") => last_fire' = clock'
       /\ (pc = "beat" /\ pc' # "beat") => last_fire' = clock']_vars
\* An iteration has just ended without a heartbeat, exactly 500 ms after the
\* last heartbeat or actuation.
C9_Witness ==
    /\ pc = "lock"
    /\ ~ticked
    /\ clock - last_fire = 500 * 1000 * TicksPerMicro

\* C10: the heartbeat keeps every configured PDM out of loss-of-communication:
\* at the end of every iteration each PDM has been sent a frame within the
\* last second, whatever the queued entries.
C10_EveryPdmHeardWithinOneSecond ==
    [][(pc # "lock" /\ pc' = "lock") =>
         \A p \in pdms : clock' - pdm_last_rx'[p] <= 1000 * 1000 * TicksPerMicro]_vars

\* C11: the heartbeat does not change output state: whenever the heartbeat
\* is issued every channel of both PDMs is already at duty 0, so that no
\* channel switched on by a fired "on" entry whose "off" entry is not yet due
\* is switched off by a heartbeat.
C11_HeartbeatChangesNoOutput ==
    [][(pc = "beat" /\ pc' # "beat") =>
         /\ energised = {}
         /\ energised' = energised]_vars

\* C12: no de-duplication: ingesting the same command a second time (again
\* with start_time > now) leaves twice as many entries of it in the queue as
\* the first ingestion left.
C12_DuplicateCommandDoublesEntries ==
    [][\A i \in 1..Len(tasks) :
         (Enqueues(i) /\ EntriesOf(queue, tasks[i]) # {}) =>
            Cardinality(EntriesOf(queue', tasks[i]))
              = 2 * Cardinality(EntriesOf(queue, tasks[i]))]_vars

\* C13: every queue entry is removed exactly once, by being fired or by
\* expiry: a step removes at most one entry, either the minimal entry when it
\* is in the past (nothing is actuated) or the entry that is being actuated;
\* an actuated entry leaves the queue in the step that actuates it, so that it
\* is not actuated again; and an entry whose fire_time has passed does not
\* stay in the queue for ever while the firing loop runs.
PastEntries == { e \in queue : e.time_to_fire < clock }
C13_RemovedExactlyOnce ==
    /\ [][/\ ~(queue \subseteq queue') =>
               \E e \in queue :
                  /\ queue' = queue \ {e}
                  /\ \/ /\ pc = "peek"
                        /\ e.time_to_fire < clock
                        /\ \A o \in queue : e.time_to_fire <= o.time_to_fire
                        /\ UNCHANGED <<sent, fired, energised>>
                     \/ /\ pc = "send"
                        /\ e = message
                        /\ fired' = e
                        /\ NewFrames = FireFrames(e, pdms)
          /\ (pc = "send" /\ pc' # "send") =>
               /\ message \in queue
               /\ queue' = queue \ {message}
          /\ (sent' # sent /\ pc # "lock" /\ pc # "beat") => pc = "send"]_vars
    /\ (PastEntries # {}) ~> (PastEntries = {})
\* A pulse of the padded spray is queued although its fire_time has passed, and
\* an earlier pulse has been actuated.
C13_Witness ==
    /\ fired # NoMessage
    /\ \E e \in PastEntries : e.is_on /\ e.time_to_fire > fired.time_to_fire

\* C14: the entries are actuated in non-decreasing order of fire_time up to
\* the 5 us tolerance: no entry is actuated after an entry whose fire_time is
\* more than 5 us later, also when commands are ingested while the loop fires.
C14_FiringOrder ==
    [][(pc = "send" /\ pc' # "send") =>
         /\ fired' = message
         /\ fired_max - message.time_to_fire <= 5 * TicksPerMicro
         /\ fired_max' >= fired_max
         /\ fired_max' >= message.time_to_fire]_vars
\* An entry has been actuated, and a command ingested afterwards has put an
\* entry of an earlier fire_time into the queue.
C14_Witness ==
    /\ fired # NoMessage
    /\ \E e \in queue : e.time_to_fire + 5 * TicksPerMicro < fired.time_to_fire

\* C15: when two queue entries have the same fire_time both are fired, in
\* either order: the entry that is left is not discarded as past after the
\* other one was fired.  Stated for the two entries of one command.
SameCommand(e, f) ==
    /\ e.channels = f.channels
    /\ e.original_spray_starts = f.original_spray_starts
    /\ e.original_spray_ending = f.original_spray_ending
C15_TiedEntriesBothFired ==
    [][(pc = "peek" /\ pc' # "peek") =>
         \A e \in queue \ queue' :
            ~(/\ fired # NoMessage
              /\ fired.time_to_fire = e.time_to_fire
              /\ SameCommand(fired, e))]_vars

\* C16: the firing loop and the ingestion tasks work on the queue under one
\* mutex: a firing iteration and an enqueue never overlap, the entries of a
\* command are all pushed in one critical section (an iteration sees none or
\* all of them), and an entry is fired only after the insertion of its command
\* has completed.
C16_OneMutex ==
    /\ (pc # "lock") => (holder = "fire" /\ ~inserting.active)
    /\ inserting.active => (holder = "task" /\ pc = "lock")
    /\ (pc = "send") => (message \in queue /\ inserting.todo = << >>)
\* The padded spray is half inserted: pulses are queued, more are to come,
\* and the firing task waits for the guard.
C16_Witness ==
    /\ inserting.active
    /\ Len(inserting.todo) > 1
    /\ queue # {}
    /\ pc = "lock"
    /\ clock > 0

\* C17: at ingestion each 0-indexed inbound channel c becomes c + 1 when no
\* channel map is configured and the wired channel of map entry c + 1 when one
\* is; order and multiplicity of the list are kept and every entry of the
\* command carries the same remapped list.  Inbound [0, 12, 13] without a map
\* gives [1, 13, 14], fired as [1] on PDM 0 and [1, 2] on PDM 1.
C17_Wired(c) == IF channel_map.some THEN channel_map.entries[c + 1][1] ELSE c + 1
C17_Remapping ==
    [][/\ \A i \in 1..Len(tasks) :
            Enqueues(i) =>
               LET inbound == tasks[i].channels_to_open
               IN  /\ \A e \in queue' \ queue :
                        /\ Len(e.channels) = Len(inbound)
                        /\ \A k \in 1..Len(inbound) :
                              e.channels[k] = C17_Wired(inbound[k])
                   /\ \E e \in queue' : /\ e.is_on
                                         /\ Len(e.channels) = Len(inbound)
                                         /\ \A k \in 1..Len(inbound) :
                                               e.channels[k] = C17_Wired(inbound[k])
                   /\ (inbound = <<0, 12, 13>> /\ ~channel_map.some) =>
                        \A e \in queue' \ queue : e.channels = <<1, 13, 14>>
       /\ (pc = "send" /\ pc' # "send" /\ message.channels = <<1, 13, 14>>) =>
            /\ Len(NewFrames) = 2
            /\ NewFrames[1].pdm = 0 /\ NewFrames[1].channels = <<1>>
            /\ NewFrames[2].pdm = 1 /\ NewFrames[2].channels = <<1, 2>>]_vars
\* With the harness map, inbound [13, 0, 13] has been ingested as
\* [24, 11, 24] and its "on" entry fired as [11] on PDM 0 and [12, 12] on PDM 1.
C17_Witness ==
    /\ channel_map.some
    /\ pc = "heartbeat"
    /\ fired # NoMessage
    /\ fired.channels = <<24, 11, 24>>
    /\ Len(sent) = 2
    /\ sent[1].channels = <<11>>
    /\ sent[2].channels = <<12, 12>>
    /\ sent[2].duty = 100

\* C18: a channel-map miss is fatal: none of the command's entries is
\* enqueued and the core stops: afterwards it fires no entry, sends no
\* heartbeat and ingests no further command.
C18_MapMissStopsCore ==
    [][/\ ("panicked" \in log' /\ "panicked" \notin log) => UNCHANGED queue
       /\ ("panicked" \in log) =>
            UNCHANGED <<queue, sent, fired, last_fire, pdm_last_rx, tasks,
                        spawned>>]_vars

\* C19: every entry in the queue has original_start <= fire_time <=
\* original_end, for every command that ingestion accepts.
C19_EntriesWithinWindow ==
    \A e \in queue :
        /\ e.original_spray_starts <= e.time_to_fire
        /\ e.time_to_fire <= e.original_spray_ending

\* C20: initialisation precedes actuation: in the spray core and in the
\* lighting core no actuate (fired entry, heartbeat or light command) is
\* issued on any PDM before initialise has completed on every PDM of the core;
\* initialise binds the shared CAN handle once, then sends the function
\* configuration, then the channel configuration.
C20_Complete(calls) ==
    calls = << "set_interface", "configure_output_function",
               "configure_output_channels" >>
C20_InOrder(calls) ==
    \/ calls = << >>
    \/ calls = << "set_interface" >>
    \/ calls = << "set_interface", "configure_output_function" >>
    \/ C20_Complete(calls)
C20_InitialiseBeforeActuate ==
    [][/\ \A core \in {"spray", "light"} :
            \A p \in DOMAIN initialised'[core] :
               C20_InOrder(initialised'[core][p])
       /\ (sent' # sent /\ sent' # << >>) =>
            \A p \in pdms : C20_Complete(initialised.spray[p])
       /\ (fired' # fired \/ energised' # energised) =>
            \A p \in pdms : C20_Complete(initialised.spray[p])
       /\ (light_sent' # light_sent) =>
            \A p \in DOMAIN initialised.light :
               C20_Complete(initialised.light[p])
       /\ (initialised'.spray # initialised.spray) =>
            (sent = << >> /\ fired = NoMessage /\ pc = "unspawned")
       /\ (initialised'.light # initialised.light) => light_sent = << >>]_vars
\* Both cores were started with two PDMs each; the spray core has fired an
\* entry on both and the lighting core has applied a light command.
C20_Witness ==
    /\ DOMAIN initialised.spray = {0, 1}
    /\ DOMAIN initialised.light = {0, 1}
    /\ fired # NoMessage
    /\ Len(sent) = 2
    /\ light_sent # << >>

\* ---------------------------------------------------------------------------
\* The connections of the lighting core (lighting.rs, handle_connection).
\* ---------------------------------------------------------------------------

\* The variables of the spray core.
spray_core == <<clock, pdms, channel_map, queue, holder, pc, message, utc_now,
                last_fire, sent, pdm_last_rx, tasks, spawned, log, ticked,
                energised, fired, fired_max, inserting>>

MaxLightConns == 2

\* The PDM indices a lighting configuration may name.
LightPdmConfigs == { {0}, {0, 1}, {1} }

\* What a peer writes on one connection, line by line.
LightStreams ==
    { << LightMessage(<<7, 8, 9>>, TRUE), Malformed,
         LightMessage(<<7, 8, 9>>, FALSE) >>,
      << LightMessage(<<1>>, FALSE), LightMessage(<<1>>, TRUE) >>,
      << Malformed >> }

\* A handle_connection task at the head of its loop.  `stream` is what the
\* peer writes, `lines` what has not been read yet, `applied` the frames the
\* task has passed to actuate_channels, `closed` whether the peer has closed
\* the connection and `zero_reads` the number of reads that returned 0 bytes.
LightConn(stream) ==
    [stream |-> stream, lines |-> stream, pc |-> "read", message |-> NoMessage,
     applied |-> << >>, closed |-> FALSE, zero_reads |-> 0]

InitLight ==
    \E L \in LightPdmConfigs :
        /\ clock = 0
        /\ pdms = {0, 1}
        /\ channel_map = NoMap
        /\ queue = {}
        /\ holder = "none"
        /\ pc = "lock"
        /\ message = NoMessage
        /\ utc_now = 0
        /\ last_fire = 0
        /\ sent = << >>
        /\ pdm_last_rx = [p \in {0, 1} |-> 0]
        /\ tasks = << >>
        /\ spawned = 0
        /\ log = {}
        /\ ticked = FALSE
        /\ energised = {}
        /\ fired = NoMessage
        /\ fired_max = 0
        /\ inserting = Idle
        /\ start_pc = [spray |-> "accept", light |-> "accept"]
        /\ initialised = [spray |-> [p \in {0, 1} |-> InitCalls],
                          light |-> [p \in L |-> InitCalls]]
        /\ light_sent = << >>
        /\ RestIdle

\* `listener.accept()` and `tokio::spawn(handle_connection(..))`.
LightAccept ==
    /\ start_pc.light = "accept"
    /\ Len(light.conns) < MaxLightConns
    /\ \E stream \in LightStreams :
          light' = [light EXCEPT !.conns = Append(@, LightConn(stream))]
    /\ UNCHANGED <<spray_core, boot, conns, array, setup>>

\* `read_until(b'\n')` returned a line and `serde_json::from_slice` was applied:
\* a LightMessage goes on to the mutex, anything else is printed and the loop
\* starts over.
LightRead(c) ==
    /\ c \in DOMAIN light.conns
    /\ light.conns[c].pc = "read"
    /\ light.conns[c].lines # << >>
    /\ LET line == Head(light.conns[c].lines)
       IN  light' =
              [light EXCEPT
                 !.conns[c] =
                    [@ EXCEPT !.lines = Tail(@),
                              !.pc = IF line = Malformed THEN "read" ELSE "lock",
                              !.message = IF line = Malformed THEN NoMessage
                                          ELSE line]]
    /\ UNCHANGED <<spray_core, boot, conns, array, setup>>

\* `power.lock().await` returns once no other task holds the guard.
LightLock(c) ==
    /\ c \in DOMAIN light.conns
    /\ light.conns[c].pc = "lock"
    /\ light.holder = 0
    /\ light' = [light EXCEPT !.holder = c, !.conns[c].pc = "actuate"]
    /\ UNCHANGED <<spray_core, boot, conns, array, setup>>

\* The frame the handler sends for a message: PDM 0, PGN 17, the channels of
\* the message, 100.0 when is_on and 0.0 otherwise.
LightFrame(m) == Frame(0, m.channels, Pwm(m.is_on))

\* Variant of the handler's frame with the duty of the `is_on` branch only.
LightFramesAlwaysOn(P, m) ==
    IF 0 \in P THEN << Frame(0, m.channels, 100) >> ELSE << >>

\* The two `if let Some(pdm) = gaurd.pdms.get(&0)` branches: the frames sent for
\* a message by a core whose PDM indices are P.
LightFrames(P, m) == IF 0 \in P THEN << LightFrame(m) >> ELSE << >>

\* The body under the guard and `drop(gaurd)`.
LightApply(c) ==
    /\ c \in DOMAIN light.conns
    /\ light.conns[c].pc = "actuate"
    /\ light.holder = c
    /\ LET frames == LightFrames(DOMAIN initialised.light,
                                 light.conns[c].message)
       IN  /\ light_sent' = light_sent \o frames
           /\ light' =
                 [light EXCEPT
                    !.holder = 0,
                    !.conns[c] = [@ EXCEPT !.pc = "read",
                                           !.message = NoMessage,
                                           !.applied = @ \o frames]]
    /\ UNCHANGED <<spray_core, start_pc, initialised, conns, array, setup>>

LightReadLine == \E c \in DOMAIN light.conns : LightRead(c)
LightTakeGuard == \E c \in DOMAIN light.conns : LightLock(c)
LightApplyMessage == \E c \in DOMAIN light.conns : LightApply(c)

NextLight ==
    \/ LightAccept
    \/ LightReadLine
    \/ LightTakeGuard
    \/ LightApplyMessage

SpecLight == InitLight /\ [][NextLight]_vars

\* tokio runs every spawned handle_connection task, and its Mutex hands the
\* guard to the waiting tasks in the order of their requests.
LightHandlersRun ==
    \A c \in 1..MaxLightConns :
        /\ WF_vars(LightRead(c))
        /\ SF_vars(LightLock(c))
        /\ WF_vars(LightApply(c))

SpecLightFair == SpecLight /\ LightHandlersRun

\* The frame the lighting core owes a well-formed message.
C21_Frame(m) ==
    [pdm |-> 0, pgn |-> 17, channels |-> m.channels,
     duty |-> IF m.is_on THEN 100 ELSE 0]
RECURSIVE C21_FramesOf(_)
C21_FramesOf(lines) ==
    IF lines = << >> THEN << >>
    ELSE (IF Head(lines) = Malformed THEN << >>
          ELSE << C21_Frame(Head(lines)) >>) \o C21_FramesOf(Tail(lines))
\* The lines a handler has dealt with completely: the ones it has read, less
\* the message it still holds.
C21_Handled(conn) ==
    SubSeq(conn.stream, 1,
           Len(conn.stream) - Len(conn.lines)
             - (IF conn.pc \in {"lock", "actuate"} THEN 1 ELSE 0))

\* C21: in a lighting core that has PDM 0, every handler has sent exactly the
\* frames of the well-formed messages it has dealt with, one frame each on
\* PDM 0 with PGN 17, the channel list of the message and duty 100 or 0 by
\* is_on, in the order of the lines on its connection (a malformed line adds
\* none); a frame is sent only by the handler that holds the guard, for the
\* message it holds, and the step touches neither a queue nor the frames of the
\* spray core; and every line of an accepted connection is dealt with in the
\* end, the ones after a malformed line included.
C21_LightingAppliesEachMessage ==
    /\ [](0 \in DOMAIN initialised.light =>
            \A c \in DOMAIN light.conns :
               light.conns[c].applied =
                  C21_FramesOf(C21_Handled(light.conns[c])))
    /\ [][light_sent' # light_sent =>
            \E c \in DOMAIN light.conns :
               /\ light.holder = c
               /\ light.conns[c].pc = "actuate"
               /\ light_sent' =
                     Append(light_sent, C21_Frame(light.conns[c].message))
               /\ light'.conns[c].applied =
                     Append(light.conns[c].applied,
                            C21_Frame(light.conns[c].message))
               /\ \A o \in DOMAIN light.conns :
                     o # c => light'.conns[o] = light.conns[o]
               /\ UNCHANGED <<queue, sent, pdm_last_rx>>]_vars
    /\ \A c \in 1..MaxLightConns :
          (c \in DOMAIN light.conns /\ 0 \in DOMAIN initialised.light)
             ~> (/\ c \in DOMAIN light.conns
                 /\ light.conns[c].lines = << >>
                 /\ light.conns[c].applied =
                       C21_FramesOf(light.conns[c].stream))
\* Two connections were served in turn: the first has had its message before
\* and its message after a malformed line applied, the second sent a frame in
\* between.
C21_Witness ==
    /\ Len(light.conns) = 2
    /\ Len(light.conns[1].stream) = 3
    /\ light.conns[1].stream[2] = Malformed
    /\ light.conns[1].applied =
          << [pdm |-> 0, pgn |-> 17, channels |-> <<7, 8, 9>>, duty |-> 100],
             [pdm |-> 0, pgn |-> 17, channels |-> <<7, 8, 9>>, duty |-> 0] >>
    /\ Len(light_sent) = 4
    /\ light_sent[2].channels = <<1>>
    /\ light_sent[3].channels = <<1>>

\* ---------------------------------------------------------------------------
\* The connections of the spray core (power.rs, start and handle_connection).
\* ---------------------------------------------------------------------------
MaxConns == 1

SecondSpray == WeedMessage(<<1>>, Millis(300), Millis(400))

\* What a peer writes on one connection before it closes it, line by line.
ConnStreams ==
    { << StartSpray >>, << StartSpray, SecondSpray >>,
      << Malformed, SecondSpray >>, << >> }

\* A handle_connection task before its read.  `stream` is what the peer
\* writes and `lines` what has not been read yet.
Conn(stream) ==
    [stream |-> stream, lines |-> stream, pc |-> "read", message |-> NoMessage]

\* The time at which the listener starts: before StartSpray, and at its start.
ConnClocks == { 0, Millis(100) }

InitConn ==
    \E now \in ConnClocks, map \in ChannelMaps : Startup(now, {0, 1}, map)

\* `listener.accept()` and `tokio::spawn(handle_connection(..))`.
Accept ==
    /\ Len(conns) < MaxConns
    /\ \E stream \in ConnStreams : conns' = Append(conns, Conn(stream))
    /\ UNCHANGED <<spray_core, boot, light, array, setup>>

\* What `read_until(b'\n')` returns: the next line, or nothing at the end of
\* the stream, which `serde_json::from_slice` rejects like any malformed line.
ReadUntil(lines) == IF lines = << >> THEN Malformed ELSE Head(lines)

\* The one `read_until`, the parse and the freshness test.  A message that is
\* fresh goes on to `power.lock().await`; in the other cases a line is printed
\* and the function returns, which drops the socket.
Read(c) ==
    /\ c \in DOMAIN conns
    /\ conns[c].pc = "read"
    /\ LET m == ReadUntil(conns[c].lines)
           left == IF conns[c].lines = << >> THEN << >>
                   ELSE Tail(conns[c].lines)
       IN  IF m = Malformed
           THEN /\ log' = log \cup {"malformed"}
                /\ conns' = [conns EXCEPT ![c].pc = "returned",
                                          ![c].lines = left]
           ELSE IF IsFresh(m, clock)
           THEN /\ conns' = [conns EXCEPT ![c].pc = "lock",
                                          ![c].lines = left,
                                          ![c].message = m]
                /\ UNCHANGED log
           ELSE /\ log' = log \cup {"ignored"}
                /\ conns' = [conns EXCEPT ![c].pc = "returned",
                                          ![c].lines = left]
    /\ UNCHANGED <<clock, pdms, channel_map, queue, holder, pc, message,
                   utc_now, last_fire, sent, pdm_last_rx, tasks, spawned,
                   ticked, energised, fired, fired_max, inserting, boot, light,
                   array, setup>>

\* Variant of the handler that goes back to its read after the critical
\* section, as a handler of a long-standing connection would.
PushKeepsReading(c) ==
    /\ c \in DOMAIN conns
    /\ conns[c].pc = "lock"
    /\ holder = "none"
    /\ IF MapMiss(conns[c].message.channels_to_open, channel_map)
       THEN /\ log' = log \cup {"panicked"}
            /\ UNCHANGED queue
       ELSE /\ queue' = add_to_message_queue(queue,
                            QueueEntries(conns[c].message, channel_map))
            /\ UNCHANGED log
    /\ conns' = [conns EXCEPT ![c].pc = "read", ![c].message = NoMessage]
    /\ UNCHANGED <<clock, pdms, channel_map, holder, pc, message, utc_now,
                   last_fire, sent, pdm_last_rx, tasks, spawned, ticked,
                   energised, fired, fired_max, inserting, boot, light, array, setup>>

\* `power.lock().await` to `drop(gaurd)` and the end of the function: the
\* entries are pushed, or the map miss panics the task; either way the task
\* ends and its socket is dropped.
Push(c) ==
    /\ c \in DOMAIN conns
    /\ conns[c].pc = "lock"
    /\ holder = "none"
    /\ IF MapMiss(conns[c].message.channels_to_open, channel_map)
       THEN /\ log' = log \cup {"panicked"}
            /\ UNCHANGED queue
       ELSE /\ queue' = add_to_message_queue(queue,
                            QueueEntries(conns[c].message, channel_map))
            /\ UNCHANGED log
    /\ conns' = [conns EXCEPT ![c].pc = "returned"]
    /\ UNCHANGED <<clock, pdms, channel_map, holder, pc, message, utc_now,
                   last_fire, sent, pdm_last_rx, tasks, spawned, ticked,
                   energised, fired, fired_max, inserting, boot, light, array, setup>>

ReadLine == \E c \in DOMAIN conns : Read(c)
\* The span of time in which connections are followed.
ConnHorizonMs == 510
TickConn == clock < Millis(ConnHorizonMs) /\ Tick
PushEntries == \E c \in DOMAIN conns : Push(c)

NextConn ==
    \/ TickConn
    \/ Lock
    \/ Peek
    \/ Send
    \/ HeartbeatCheck
    \/ Beat
    \/ Accept
    \/ ReadLine
    \/ PushEntries

SpecConn == InitConn /\ [][NextConn]_vars

\* tokio runs every spawned handle_connection task, and its Mutex hands the
\* guard to the waiting tasks in the order of their requests.
HandlersRun ==
    \A c \in 1..MaxConns : WF_vars(Read(c)) /\ SF_vars(Push(c))

SpecConnFair == SpecConn /\ FiringRuns /\ HandlersRun

\* The entries that the first line of a stream stands for.
C22_FirstLineEntries(stream) ==
    IF stream = << >> \/ Head(stream) = Malformed
       \/ MapMiss(Head(stream).channels_to_open, channel_map)
    THEN {}
    ELSE QueueEntries(Head(stream), channel_map)

\* C22: every handler of the spray listener reads at most one line of its
\* connection; once it has returned it holds exactly the lines after the first
\* unread and never acts again; every queued entry stems from the first line of
\* some connection, so a later line is never ingested; and every accepted
\* connection's handler returns in the end.
C22_OneMessagePerConnection ==
    /\ [](/\ \A c \in DOMAIN conns :
               /\ Len(conns[c].stream) - Len(conns[c].lines) <= 1
               /\ conns[c].pc # "read" =>
                     conns[c].lines = SubSeq(conns[c].stream, 2,
                                             Len(conns[c].stream))
          /\ \A e \in queue :
               \E c \in DOMAIN conns :
                  e \in C22_FirstLineEntries(conns[c].stream))
    /\ [][\A c \in DOMAIN conns :
             conns[c].pc = "returned" => conns'[c] = conns[c]]_vars
    /\ \A c \in 1..MaxConns :
          (c \in DOMAIN conns)
             ~> (c \in DOMAIN conns /\ conns[c].pc = "returned")
\* A handler has returned after its message was queued, with the second line
\* of its connection left unread.
C22_Witness ==
    /\ Len(conns) = 1
    /\ conns[1].pc = "returned"
    /\ conns[1].stream = << StartSpray, SecondSpray >>
    /\ conns[1].lines = << SecondSpray >>
    /\ queue # {}

\* ---------------------------------------------------------------------------
\* The camera array (camera_array.rs, CameraArrayController::start) and its
\* workers (camera.rs, CameraController::start).
\* ---------------------------------------------------------------------------

\* The variables of the two cores, the clock apart.
cores == <<pdms, channel_map, queue, holder, pc, message, utc_now, last_fire,
           sent, pdm_last_rx, tasks, spawned, log, ticked, energised, fired,
           fired_max, inserting, boot, light, conns>>

\* `let config_limit = 5`, in seconds.
CONFIG_LIMIT == 5
\* `AllocRingBuffer::new(128)`.
HANDLE_CAPACITY == 128

MaxCameras == 2
\* The span of time in which capture cycles are started.
ArrayHorizonMs == 50

\* Duration::as_millis and Duration::as_secs: whole units, the rest dropped.
AsMillis(t) == t \div Millis(1)
AsSecs(t) == t \div Millis(1000)

\* `Duration::from_secs_f64(1.0 / frame_rate).as_millis()`.
IntervalMs(frame_rate) == AsMillis(Millis(1000) \div frame_rate)

\* A CameraController::start thread at its spawn.  `tick`, `config_tick` and
\* `wake` are the Instants of the loop and the end of its sleep; `restarted`
\* and `balanced` tell whether the current iteration has restarted the stream
\* and whether it has issued the white-balance command;
\* `last_send` is the tick of the last iteration that sent a payload and
\* `frames` the number of payloads sent.
Worker(frame_rate) ==
    [pc |-> "setup", frame_rate |-> frame_rate, local_gen |-> 0, tick |-> 0,
     config_tick |-> 0, wake |-> 0, restarted |-> FALSE, balanced |-> FALSE,
     last_send |-> -1, frames |-> 0]

\* The array right after the threads were spawned: N workers with the
\* barrier of N, the Sender of `start` (0) and one clone per worker, and the
\* writer thread at its loop.
ArrayStarted(N, rates) ==
    /\ StartedCore(0, {0, 1}, NoMap, {}, 0)
    /\ light = LightIdle
    /\ conns = << >>
    /\ workers \in [1..N -> { Worker(r) : r \in rates }]
    /\ barrier = [num_threads |-> N, count |-> 0, generation_id |-> 0]
    /\ stop_signal = FALSE
    /\ channel = [senders |-> 0..N, payloads |-> << >>]
    /\ writer = [pc |-> "recv", handles |-> << >>]
    /\ writes = [running |-> {}, saved |-> {}]
    /\ SetupIdle

\* create_stream, push_buffer, start_acquisition, config_tick = Instant::now().
Setup(w) ==
    /\ w \in DOMAIN workers
    /\ workers[w].pc = "setup"
    /\ workers' = [workers EXCEPT ![w].pc = "start_barrier",
                                  ![w].config_tick = clock]
    /\ UNCHANGED <<clock, cores, setup, barrier, stop_signal, channel, writer, writes>>

\* Variant of the leader test that is content with one thread less.
IsLeaderEarly(b) == b.count + 1 >= b.num_threads - 1
\* std::sync::Barrier::wait: the thread that brings the count to num_threads
\* is the leader.
IsLeader(b) == b.count + 1 >= b.num_threads
\* The barrier after an arrival: the leader resets the count and starts the
\* next generation, any other thread adds itself to the count.
Arrived(b) ==
    IF IsLeader(b)
    THEN [b EXCEPT !.count = 0, !.generation_id = @ + 1]
    ELSE [b EXCEPT !.count = @ + 1]
\* Variant of the wake-up test that does not look at the generation.
ReleasedAlways(b, local_gen) == b.generation_id >= local_gen
\* A waiting thread goes on once the generation is no longer the one it
\* arrived in.
Released(b, local_gen) == b.generation_id # local_gen

\* Where a thread is while it waits at a barrier, and where it goes on.
Blocked(at) == IF at = "start_barrier" THEN "start_blocked" ELSE "stop_blocked"
Past(at) ==
    IF at \in {"start_barrier", "start_blocked"} THEN "head" ELSE "returned"
\* The end of CameraController::start drops the worker's Sender.
SendersAfter(w, at) ==
    IF Past(at) = "returned" THEN channel.senders \ {w} ELSE channel.senders

\* `barrier.wait()`, up to the wait on the condition variable.
Arrive(w) ==
    /\ w \in DOMAIN workers
    /\ workers[w].pc \in {"start_barrier", "stop_barrier"}
    /\ barrier' = Arrived(barrier)
    /\ IF IsLeader(barrier)
       THEN /\ workers' = [workers EXCEPT ![w].pc = Past(@),
                                          ![w].local_gen = barrier.generation_id]
            /\ channel' = [channel EXCEPT
                              !.senders = SendersAfter(w, workers[w].pc)]
       ELSE /\ workers' = [workers EXCEPT ![w].pc = Blocked(@),
                                          ![w].local_gen = barrier.generation_id]
            /\ UNCHANGED channel
    /\ UNCHANGED <<clock, cores, setup, stop_signal, writer, writes>>

\* `barrier.wait()` returns in a thread that was not the leader.
Leave(w) ==
    /\ w \in DOMAIN workers
    /\ workers[w].pc \in {"start_blocked", "stop_blocked"}
    /\ Released(barrier, workers[w].local_gen)
    /\ workers' = [workers EXCEPT ![w].pc = Past(@)]
    /\ channel' = [channel EXCEPT !.senders = SendersAfter(w, workers[w].pc)]
    /\ UNCHANGED <<clock, cores, setup, barrier, stop_signal, writer, writes>>

\* `config_tick.elapsed().as_secs() > config_limit`.
BalanceDue(config_tick, now) == AsSecs(now - config_tick) > CONFIG_LIMIT

\* Variant of the loop condition that tests the flag before the first frame
\* only.
StopLoadedBeforeFrames(w) == stop_signal /\ workers[w].frames = 0
\* `stop_signal.load(Ordering::Relaxed)` in the thread of worker w.
StopLoaded(w) == stop_signal

\* The loop head: `while !stop_signal.load(..)`, `tick = Instant::now()`, the
\* white balance and the software trigger.  Cycles are started up to the
\* horizon.
LoopHead(w, horizon) ==
    /\ w \in DOMAIN workers
    /\ workers[w].pc = "head"
    /\ IF StopLoaded(w)
       THEN workers' = [workers EXCEPT ![w].pc = "stop_barrier"]
       ELSE /\ clock < horizon
            /\ workers' =
                  [workers EXCEPT
                     ![w].pc = "pop",
                     ![w].tick = clock,
                     ![w].restarted = FALSE,
                     ![w].balanced = BalanceDue(workers[w].config_tick, clock),
                     ![w].config_tick =
                        IF BalanceDue(@, clock) THEN clock ELSE @]
    /\ UNCHANGED <<clock, cores, setup, barrier, stop_signal, channel, writer, writes>>

DevicePayload(w, n) == [camera |-> w, frame |-> n]

\* `try_pop_buffer()` returned None: the iteration ends.
PopNone(w) ==
    /\ workers' = [workers EXCEPT ![w].pc = "head"]
    /\ UNCHANGED <<clock, channel>>

\* `into_image()` failed: stop_thread, start_thread, push_buffer.
PopBad(w) ==
    /\ workers' = [workers EXCEPT ![w].pc = "head", ![w].restarted = TRUE]
    /\ UNCHANGED <<clock, channel>>

\* An image: `delta_ms = tick.elapsed().as_millis()`; in time, the payload is
\* sent and the thread sleeps for the rest of the interval; late, nothing.
PopImage(w) ==
    LET delta_ms == AsMillis(clock - workers[w].tick)
        interval_ms == IntervalMs(workers[w].frame_rate)
    IN  IF delta_ms < interval_ms
        THEN /\ channel' =
                   [channel EXCEPT
                      !.payloads =
                         Append(@, DevicePayload(w, workers[w].frames + 1))]
             /\ workers' =
                   [workers EXCEPT
                      ![w].pc = "sleep",
                      ![w].frames = @ + 1,
                      ![w].last_send = workers[w].tick,
                      ![w].wake = clock + Millis(interval_ms - delta_ms)]
             /\ UNCHANGED clock
        ELSE /\ workers' = [workers EXCEPT ![w].pc = "head"]
             /\ UNCHANGED <<clock, channel>>

\* `try_pop_buffer()` and `buffer.into_image()` come to one of three: no
\* buffer, a buffer that is no image, or an image.
Pop(w) ==
    /\ w \in DOMAIN workers
    /\ workers[w].pc = "pop"
    /\ \/ PopNone(w)
       \/ PopBad(w)
       \/ PopImage(w)
    /\ UNCHANGED <<cores, setup, barrier, stop_signal, writer, writes>>

\* `std::thread::sleep(..)` returns: the time is the end of the sleep at least.
Wake(w) ==
    /\ w \in DOMAIN workers
    /\ workers[w].pc = "sleep"
    /\ clock' = IF clock < workers[w].wake THEN workers[w].wake ELSE clock
    /\ workers' = [workers EXCEPT ![w].pc = "head"]
    /\ UNCHANGED <<cores, setup, barrier, stop_signal, channel, writer, writes>>

\* CameraArrayController::start returns: its own Sender is dropped and the
\* caller has the stop signal.
StartReturns ==
    /\ 0 \in channel.senders
    /\ channel' = [channel EXCEPT !.senders = @ \ {0}]
    /\ UNCHANGED <<clock, cores, setup, workers, barrier, stop_signal, writer, writes>>

\* The caller's `stop_signal.store(true, ..)`.
Stop ==
    /\ 0 \notin channel.senders
    /\ ~stop_signal
    /\ stop_signal' = TRUE
    /\ UNCHANGED <<clock, cores, setup, workers, barrier, channel, writer, writes>>

\* Variant of the push into a buffer that grows without a limit.
RingPushUnbounded(handles, h) == Append(handles, h)
\* `AllocRingBuffer::push`: at capacity the oldest element is dropped.
RingPush(handles, h) ==
    IF Len(handles) < HANDLE_CAPACITY THEN Append(handles, h)
    ELSE Append(Tail(handles), h)

\* `for payload in device_channel_rx`: a payload is taken, a thread that saves
\* the image is spawned and its handle pushed.
WriterReceive ==
    /\ writer.pc = "recv"
    /\ channel.payloads # << >>
    /\ channel' = [channel EXCEPT !.payloads = Tail(@)]
    /\ writes' = [writes EXCEPT !.running = @ \cup {Head(channel.payloads)}]
    /\ writer' = [writer EXCEPT
                     !.handles = RingPush(@, Head(channel.payloads))]
    /\ UNCHANGED <<clock, cores, setup, workers, barrier, stop_signal>>

\* Variant of the end of the loop that does not look at the channel.
WriterEndsUndrained ==
    /\ writer.pc = "recv"
    /\ channel.senders = {}
    /\ writer' = [writer EXCEPT !.pc = "returned"]
    /\ UNCHANGED <<clock, cores, setup, workers, barrier, stop_signal, channel, writes>>

\* The iteration over the Receiver ends: the channel is empty and every
\* Sender has been dropped.  The thread returns its ring buffer.
WriterEnd ==
    /\ writer.pc = "recv"
    /\ channel.payloads = << >>
    /\ channel.senders = {}
    /\ writer' = [writer EXCEPT !.pc = "returned"]
    /\ UNCHANGED <<clock, cores, setup, workers, barrier, stop_signal, channel, writes>>

\* An image-writing thread ends, its image saved or the failure printed.
WriteDone(p) ==
    /\ p \in writes.running
    /\ writes' = [running |-> writes.running \ {p},
                  saved |-> writes.saved \cup {p}]
    /\ UNCHANGED <<clock, cores, setup, workers, barrier, stop_signal, channel, writer>>

ArrayRates == {10}
InitArray == \E N \in 1..MaxCameras : ArrayStarted(N, ArrayRates)

WorkerSetup == \E w \in DOMAIN workers : Setup(w)
WorkerArrive == \E w \in DOMAIN workers : Arrive(w)
WorkerLeave == \E w \in DOMAIN workers : Leave(w)
WorkerHead == \E w \in DOMAIN workers : LoopHead(w, Millis(ArrayHorizonMs))
WorkerPop == \E w \in DOMAIN workers : Pop(w)
WorkerWake == \E w \in DOMAIN workers : Wake(w)

NextArray ==
    \/ WorkerSetup
    \/ WorkerArrive
    \/ WorkerLeave
    \/ WorkerHead
    \/ WorkerPop
    \/ WorkerWake
    \/ StartReturns
    \/ Stop
    \/ WriterReceive
    \/ WriterEnd

SpecArray == InitArray /\ [][NextArray]_vars

\* The operating system runs every camera thread.
WorkersRun ==
    \A w \in 1..MaxCameras :
        /\ WF_vars(Setup(w))
        /\ WF_vars(Arrive(w))
        /\ WF_vars(Leave(w))
        /\ WF_vars(LoopHead(w, Millis(ArrayHorizonMs)))
        /\ WF_vars(Pop(w))
        /\ WF_vars(Wake(w))
\* `start` returns after its spawns, and the writer thread runs.
WriterRuns ==
    /\ WF_vars(StartReturns)
    /\ WF_vars(WriterReceive)
    /\ WF_vars(WriterEnd)

SpecArrayFair == SpecArray /\ WorkersRun /\ WriterRuns

\* Where a worker is before it has arrived at the start barrier, and where it
\* is once it has left its capture loop and arrived at the shutdown barrier.
C23_NotArrived == {"setup", "start_barrier"}
C24_AtShutdown == {"stop_blocked", "returned"}

\* C23: a worker is in its capture loop (or beyond it) only when every worker
\* of the array has started its acquisition and arrived at the start barrier.
C23_StartupRendezvous ==
    \A w \in DOMAIN workers :
        workers[w].pc \notin (C23_NotArrived \cup {"start_blocked"}) =>
           \A v \in DOMAIN workers : workers[v].pc \notin C23_NotArrived
\* With two cameras, one worker has issued its first trigger while the other,
\* which had arrived first, has not yet woken from the barrier.
C23_Witness ==
    /\ Len(workers) = 2
    /\ workers[1].pc = "pop"
    /\ workers[1].frames = 0
    /\ workers[2].pc = "start_blocked"

\* C24: a worker has returned only when every worker has left its capture loop
\* and arrived at the shutdown barrier; a worker that waits at the shutdown
\* barrier goes on only in such a state; and no worker is at the shutdown
\* barrier while another has yet to arrive at the start barrier, so that an
\* arrival at the start barrier never counts for the shutdown.
C24_ShutdownRendezvous ==
    /\ [](\A w \in DOMAIN workers :
             /\ workers[w].pc = "returned" =>
                   \A v \in DOMAIN workers : workers[v].pc \in C24_AtShutdown
             /\ workers[w].pc \in {"stop_barrier", "stop_blocked"} =>
                   \A v \in DOMAIN workers :
                      workers[v].pc \notin C23_NotArrived)
    /\ [][\A w \in DOMAIN workers :
             (workers[w].pc = "stop_blocked" /\ workers'[w].pc = "returned") =>
                \A v \in DOMAIN workers : workers[v].pc \in C24_AtShutdown]_vars
\* With two cameras, one worker waits at the shutdown barrier while the other
\* sleeps in its capture loop after a frame.
C24_Witness ==
    /\ Len(workers) = 2
    /\ workers[1].pc = "stop_blocked"
    /\ workers[2].pc = "sleep"
    /\ workers[2].frames = 1

\* C25: a worker that is at its loop head when the stop flag is set goes to
\* the shutdown barrier next; from there on it sends no frame; and once the
\* flag is set every worker returns in the end.
C25_CancellationLiveness ==
    /\ [][\A w \in DOMAIN workers :
             /\ (stop_signal /\ workers[w].pc = "head"
                 /\ workers'[w].pc # "head") =>
                   workers'[w].pc = "stop_barrier"
             /\ workers[w].pc \in {"stop_barrier", "stop_blocked", "returned"} =>
                   /\ workers'[w].frames = workers[w].frames
                   /\ workers'[w].pc \in
                         {"stop_barrier", "stop_blocked", "returned"}]_vars
    /\ stop_signal ~> (\A w \in DOMAIN workers : workers[w].pc = "returned")
\* Two workers that were stopped after a frame each have both returned.
C25_Witness ==
    /\ Len(workers) = 2
    /\ stop_signal
    /\ \A w \in {1, 2} : workers[w].pc = "returned" /\ workers[w].frames = 1

\* The payloads sent by the workers so far, and the ones still in the channel.
C30_Sent ==
    UNION { { DevicePayload(w, n) : n \in 1..workers[w].frames } :
            w \in DOMAIN workers }
C30_InChannel == { channel.payloads[i] : i \in 1..Len(channel.payloads) }
C30_Handled == writes.running \cup writes.saved

\* C30: every payload sent is either still in the channel or has exactly one
\* write task, and there is no write task for anything else; the writer has
\* returned only when every Sender is dropped and the channel is empty, and in
\* such a state it does return; so once the stop flag is set the writer
\* returns in the end, with a write task for every payload that was sent.
C30_WriterDrainsAndTerminates ==
    /\ [](/\ C30_Sent = C30_InChannel \cup C30_Handled
          /\ Cardinality(C30_Sent) =
                Len(channel.payloads) + Cardinality(writes.running)
                  + Cardinality(writes.saved)
          /\ writer.pc = "returned" =>
                (channel.senders = {} /\ channel.payloads = << >>))
    /\ (channel.senders = {} /\ channel.payloads = << >>)
          ~> (writer.pc = "returned")
    /\ stop_signal ~> (writer.pc = "returned" /\ C30_Handled = C30_Sent)
\* The writer has returned after two stopped workers sent a payload each,
\* both of which have got their write task.
C30_Witness ==
    /\ Len(workers) = 2
    /\ stop_signal
    /\ writer.pc = "returned"
    /\ Cardinality(C30_Sent) = 2
    /\ C30_Handled = C30_Sent

\* ---------------------------------------------------------------------------
\* The writer thread on its own, fed by one camera.
\* ---------------------------------------------------------------------------
MaxPayloads == 130
MaxInFlight == 1

\* One worker in its capture loop and the writer at its loop; `start` has
\* returned.
InitWriter ==
    /\ StartedCore(0, {0, 1}, NoMap, {}, 0)
    /\ light = LightIdle
    /\ conns = << >>
    /\ workers = << [Worker(10) EXCEPT !.pc = "pop"] >>
    /\ barrier = [num_threads |-> 1, count |-> 0, generation_id |-> 1]
    /\ stop_signal = FALSE
    /\ channel = [senders |-> {1}, payloads |-> << >>]
    /\ writer = [pc |-> "recv", handles |-> << >>]
    /\ writes = [running |-> {}, saved |-> {}]
    /\ SetupIdle

\* `image_channel.send(payload)` of a capture cycle, the rest of the cycle
\* left out.
Deliver(w) ==
    /\ workers[w].pc = "pop"
    /\ workers[w].frames < MaxPayloads
    /\ Len(channel.payloads) < MaxInFlight
    /\ channel' = [channel EXCEPT
                      !.payloads =
                         Append(@, DevicePayload(w, workers[w].frames + 1))]
    /\ workers' = [workers EXCEPT ![w].frames = @ + 1]
    /\ UNCHANGED <<clock, cores, setup, barrier, stop_signal, writer, writes>>

\* The worker has been stopped and returns, which drops its Sender.
Hangup(w) ==
    /\ workers[w].pc = "pop"
    /\ workers' = [workers EXCEPT ![w].pc = "returned"]
    /\ stop_signal' = TRUE
    /\ channel' = [channel EXCEPT !.senders = @ \ {w}]
    /\ UNCHANGED <<clock, cores, setup, barrier, writer, writes>>

\* The image-writing threads end in the order of their spawns.
WriteOldest ==
    \E p \in writes.running :
        /\ \A o \in writes.running : p.frame <= o.frame
        /\ WriteDone(p)

NextWriter ==
    \/ Deliver(1)
    \/ Hangup(1)
    \/ WriterReceive
    \/ WriterEnd
    \/ WriteOldest

SpecWriter == InitWriter /\ [][NextWriter]_vars

\* The operating system runs every image-writing thread.
WritesRun == WF_vars(WriteOldest)

SpecWriterFair == SpecWriter /\ WritesRun

\* The payloads the writer has received, and the last `n` of them in the
\* order in which they were received.
C29_Received == Cardinality(writes.running) + Cardinality(writes.saved)
C29_Latest(n) ==
    [i \in 1..n |-> [camera |-> 1, frame |-> C29_Received - n + i]]
C29_Min(a, b) == IF a < b THEN a ELSE b

\* C29: after k payloads the ring buffer holds the handles of the latest
\* min(k, 128) write tasks in the order of their spawns, so never more than
\* 128; a task leaves the running ones only by ending, whatever has happened
\* to its handle; and the first task, once its handle has been evicted, still
\* ends.
C29_HandleStore ==
    /\ [](/\ Len(writer.handles) <= 128
          /\ writer.handles = C29_Latest(C29_Min(C29_Received, 128)))
    /\ [][writes'.running \cup writes'.saved
             = writes.running \cup writes.saved
                 \cup (writes'.running \ writes.running)
          /\ writes.saved \subseteq writes'.saved]_vars
    /\ ([camera |-> 1, frame |-> 1] \in writes.running /\ C29_Received > 128)
          ~> ([camera |-> 1, frame |-> 1] \in writes.saved)
\* The 129th and the 130th payload have evicted the handles of the first two
\* tasks, of which the first has ended and the second still runs.
C29_Witness ==
    /\ C29_Received = 130
    /\ Len(writer.handles) = 128
    /\ writer.handles[1] = [camera |-> 1, frame |-> 3]
    /\ [camera |-> 1, frame |-> 1] \in writes.saved
    /\ [camera |-> 1, frame |-> 2] \in writes.running

\* ---------------------------------------------------------------------------
\* One camera worker against the clock.
\* ---------------------------------------------------------------------------
\* The span of time in which capture cycles are followed, in milliseconds.
PaceHorizonMs == 134
\* The configured frame rates: one whose interval is a whole number of
\* milliseconds, and one whose interval is not.
PaceRates == {10, 30}

\* The moments at which the clock is looked at: around the multiples of the
\* two frame intervals, a fraction of a millisecond apart.
PaceMillis ==
    { m \in 0..PaceHorizonMs : m % 33 \in {0, 1} \/ m % 100 \in {0, 99} }
PacePoints == { Millis(m) + o * Micros(200) : m \in PaceMillis, o \in 0..1 }

\* Time passes, up to one of the moments.
Pass(points) ==
    /\ \E t \in points : t > clock /\ clock' = t
    /\ UNCHANGED <<cores, setup, array>>

InitPace == ArrayStarted(1, PaceRates)

PaceHead == LoopHead(1, Millis(PaceHorizonMs))
\* Time is followed while the worker waits for its frame or sleeps.
PassPace == workers[1].pc \in {"pop", "sleep"} /\ Pass(PacePoints)

NextPace ==
    \/ WorkerSetup
    \/ WorkerArrive
    \/ PaceHead
    \/ WorkerPop
    \/ WorkerWake
    \/ StartReturns
    \/ Stop
    \/ PassPace

SpecPace == InitPace /\ [][NextPace]_vars

\* C26: an iteration of the capture loop in which the pop has returned nothing
\* restarts the camera stream before the next iteration.
C26_EmptyPopRestartsStream ==
    [][\A w \in DOMAIN workers :
          (workers[w].pc = "pop" /\ PopNone(w)) => workers'[w].restarted]_vars

\* The time since the start of the cycle of worker w.
C27_Elapsed(w) == clock - workers[w].tick
\* A time span is shorter than the frame interval 1/fps.
C27_BelowInterval(span, fps) == span * fps < Millis(1000)

\* C27: the step that ends a pop sends a payload exactly when an image was
\* decoded less than 1/fps after the start of the cycle; a cycle that has sent
\* sleeps until one interval after its start at least, and one that has not
\* sent does not sleep; and a cycle that sends starts one interval or more
\* after the start of the last cycle that sent.
C27_FramePacing ==
    [][\A w \in DOMAIN workers :
          (workers[w].pc = "pop" /\ workers'[w].pc # "pop") =>
             LET fps == workers[w].frame_rate
                 sends == channel'.payloads # channel.payloads
             IN  /\ sends => C27_BelowInterval(C27_Elapsed(w), fps)
                 /\ (PopImage(w) /\ C27_BelowInterval(C27_Elapsed(w), fps))
                       => sends
                 /\ sends =>
                       /\ workers'[w].pc = "sleep"
                       /\ ~C27_BelowInterval(workers'[w].wake - workers[w].tick,
                                             fps)
                       /\ workers[w].last_send # -1 =>
                             ~C27_BelowInterval(
                                 workers[w].tick - workers[w].last_send, fps)
                 /\ ~sends => workers'[w].pc = "head"]_vars

\* The span of time in which the white balance is followed, in milliseconds.
BalanceHorizonMs == 7000
\* A frame rate whose interval is one step of the clock.
BalanceRates == {2}
\* The clock is looked at every half second.
BalancePoints == { Millis(500 * k) : k \in 1..(BalanceHorizonMs \div 500) }

InitBalance == ArrayStarted(1, BalanceRates)

BalanceHead == LoopHead(1, Millis(BalanceHorizonMs))
PassBalance == workers[1].pc \in {"pop", "sleep"} /\ Pass(BalancePoints)

NextBalance ==
    \/ WorkerSetup
    \/ WorkerArrive
    \/ BalanceHead
    \/ WorkerPop
    \/ WorkerWake
    \/ StartReturns
    \/ Stop
    \/ PassBalance

SpecBalance == InitBalance /\ [][NextBalance]_vars

\* C28: the head of an iteration issues the white-balance command, and resets
\* the config tick, exactly when more than 5 s have passed since the config
\* tick.
C28_WhiteBalanceAfterFiveSeconds ==
    [][\A w \in DOMAIN workers :
          (workers[w].pc = "head" /\ workers'[w].pc = "pop") =>
             /\ workers'[w].balanced
                   <=> (clock - workers[w].config_tick > Millis(5000))
             /\ workers'[w].config_tick =
                   IF clock - workers[w].config_tick > Millis(5000)
                   THEN clock ELSE workers[w].config_tick]_vars

\* ------------------------------------------------------------------------
\* Construction of a camera (devices/hardware/camera.rs,
\* OnyxCamera::build_from_config)
\* ------------------------------------------------------------------------
\* Everything but the construction of a camera.
built_apart == <<clock, cores, array, codec, waiters>>

\* Greatest frame rate, in Hz, of the configurations and of the devices.
MaxFps == 5

\* Frame rates are whole numbers of Hz: `fps: u32`, converted exactly by
\* `config.fps.into()`; the device's bounds are taken on the same lattice.
DeviceBounds == { b \in (1..MaxFps) \X (1..MaxFps) : b[1] < b[2] }

\* The optional settings of an OnyxCameraConfig, in the order in which
\* build_from_config applies them; "balance_white_auto" is applied always.
SettingOrder == <<"region", "pixel_format", "acquisition_mode", "balance_white_auto",
                  "trigger", "packet_size">>

\* The settings a configuration holds (Some(..)), beside the frame rate.
CameraConfigs == { {}, {"region", "pixel_format"}, {"acquisition_mode", "trigger", "packet_size"} }

\* The position in SettingOrder of the first setting after position k that
\* the configuration holds, Len(SettingOrder) + 1 when there is none.
RECURSIVE NextSetting(_, _)
NextSetting(present, k) ==
    IF k >= Len(SettingOrder) THEN Len(SettingOrder) + 1
    ELSE IF SettingOrder[k + 1] \in present \cup {"balance_white_auto"} THEN k + 1
    ELSE NextSetting(present, k + 1)

\* `(min..max).contains(&config.fps.into())`: a half-open range.
FpsInDeviceRange(fps, min, max) == min <= fps /\ fps < max

\* A call of build_from_config with a configuration and a device.
Building(fps, present, bounds) ==
    [pc |-> "new", fps |-> fps, present |-> present, min |-> bounds[1],
     max |-> bounds[2], applied |-> << >>, at |-> 0, panic |-> "none"]

Panicked(why) == [build EXCEPT !.pc = "panicked", !.panic = why]

\* `Camera::new(Some(&config.ip_address.to_string()))`
NewCamera ==
    /\ build.pc = "new"
    /\ \E ok \in BOOLEAN :
           build' = IF ok THEN [build EXCEPT !.pc = "bounds"] ELSE Panicked("new")
    /\ UNCHANGED built_apart

\* `match camera.frame_rate_bounds()`: the assert on the range, or the panic
\* on Err.
FrameRateBounds ==
    /\ build.pc = "bounds"
    /\ \E ok \in BOOLEAN :
           build' = IF ~ok THEN Panicked("bounds")
                    ELSE IF FpsInDeviceRange(build.fps, build.min, build.max)
                    THEN [build EXCEPT !.pc = "frame_rate"]
                    ELSE Panicked("fps")
    /\ UNCHANGED built_apart

\* `camera.set_frame_rate(config.fps.into())`
SetFrameRate ==
    /\ build.pc = "frame_rate"
    /\ \E ok \in BOOLEAN :
           build' = IF ok
                    THEN [build EXCEPT !.pc = "settings",
                                       !.applied = Append(@, "frame_rate"),
                                       !.at = NextSetting(build.present, 0)]
                    ELSE Panicked("frame_rate")
    /\ UNCHANGED built_apart

\* One of the `if let Some(..) = config.<setting>` blocks, and the
\* unconditional BalanceWhiteAuto.
ApplySetting ==
    /\ build.pc = "settings"
    /\ build.at <= Len(SettingOrder)
    /\ \E ok \in BOOLEAN :
           build' = IF ok
                    THEN [build EXCEPT !.applied = Append(@, SettingOrder[build.at]),
                                       !.at = NextSetting(build.present, build.at)]
                    ELSE Panicked(SettingOrder[build.at])
    /\ UNCHANGED built_apart

\* The `camera` at the end of build_from_config.
ReturnCamera ==
    /\ build.pc = "settings"
    /\ build.at > Len(SettingOrder)
    /\ build' = [build EXCEPT !.pc = "built"]
    /\ UNCHANGED built_apart

InitBuild ==
    /\ StartedCore(0, {0, 1}, NoMap, {}, 0)
    /\ light = LightIdle
    /\ conns = << >>
    /\ ArrayIdle
    /\ codec = [pc |-> "idle"]
    /\ waiters = << >>
    /\ \E fps \in 1..MaxFps, present \in CameraConfigs, bounds \in DeviceBounds :
           build = Building(fps, present, bounds)

NextBuild ==
    \/ NewCamera
    \/ FrameRateBounds
    \/ SetFrameRate
    \/ ApplySetting
    \/ ReturnCamera

SpecBuild == InitBuild /\ [][NextBuild]_vars

\* C31: when the device reports its frame-rate bounds, the build passes the
\* frame-rate check exactly when min <= fps <= max, both bounds included, and
\* otherwise aborts with no setting applied.
C31_FpsWithinInclusiveBounds ==
    [][(build.pc = "bounds" /\ build'.panic # "bounds")
        => /\ (build'.pc = "frame_rate")
                <=> (build.min <= build.fps /\ build.fps <= build.max)
           /\ build'.pc # "frame_rate"
                => (build'.pc = "panicked" /\ build'.applied = << >>)]_vars

\* ------------------------------------------------------------------------
\* Configuration files: serde_yaml::to_writer and <Config>::from_file
\* ------------------------------------------------------------------------
\* Everything but the configuration being written and read.
codec_apart == <<clock, cores, array, build, waiters>>

\* Greatest number of entries of a HashMap field of a configuration.
MaxMapEntries == 2

\* `None` of an Option field, and the YAML null it is written as.
None == "None"
Null == "~"
\* The outcome of a serialiser that panics, of a parser that returns Err.
Unhandled == "unhandled"

\* aravis::PixelFormat values that CameraPixelFormat's Serialize or its
\* visitor names; aravis::AcquisitionMode values likewise.
PixelFormats == {"BAYER_RG_8", "RGB_8_PACKED", "RGB_8_PLANAR"}
AcquisitionModes == {"Continuous", "SingleFrame", "MultiFrame"}

\* `impl Serialize for CameraPixelFormat`
SerialisePixelFormat(f) ==
    IF f = "BAYER_RG_8" THEN "BAYER_RG_8" ELSE Unhandled

\* `PixelFormatVisitor::visit_str`
ParsePixelFormat(v) ==
    CASE v = "RGB_8_PACKER" -> "RGB_8_PACKED"
      [] v = "BAYER_RG_8"   -> "BAYER_RG_8"
      [] v = "RGB_8_PLANAR" -> "RGB_8_PLANAR"
      [] OTHER              -> Unhandled

\* `impl Serialize for WrapperAcquisitionMode`
SerialiseAcquisitionMode(m) ==
    CASE m = "Continuous"  -> "Continuous"
      [] m = "SingleFrame" -> "SingleFrame"
      [] m = "MultiFrame"  -> "MultiFrame"
      [] OTHER             -> Unhandled

\* `CameraAcquisitionModeVisitor::visit_str`
ParseAcquisitionMode(v) ==
    CASE v = "Continuous"  -> "Continuous"
      [] v = "SingleFrame" -> "SingleFrame"
      [] OTHER             -> Unhandled

\* An Option field: None is written as null and null is read as None.
SerialiseOption(x, ser(_)) == IF x = None THEN Null ELSE ser(x)
ParseOption(v, parse(_)) == IF v = Null THEN None ELSE parse(v)

\* The sequences of <<key, value>> in which a HashMap can be written: its
\* iteration order is not specified.
MapOrders(f) ==
    { [i \in 1..Cardinality(DOMAIN f) |-> <<order[i], f[order[i]]>>] :
        order \in { o \in [1..Cardinality(DOMAIN f) -> DOMAIN f] :
                      \A i, j \in DOMAIN o : i # j => o[i] # o[j] } }

\* `ordered_u8_map`: the entries collected into a BTreeMap, ascending by key.
ordered_u8_map(f) ==
    { s \in MapOrders(f) : \A i, j \in DOMAIN s : i < j => s[i][1] < s[j][1] }

\* A YAML mapping read into a HashMap.
ParseMap(s) ==
    [k \in { s[i][1] : i \in DOMAIN s } |-> s[CHOOSE i \in DOMAIN s : s[i][1] = k][2]]

\* The values of every kind of configuration: a HashMap<u8, PathBuf> holds
\* the path 100 + k under the key k.
FileMaps == { [k \in K |-> k + 100] : K \in SUBSET (0..MaxMapEntries - 1) }
CodecChannelMaps == { NoMap, SomeMap([p \in 1..MaxMapEntries |-> <<p + 10, p - 1>>]) }
ConfigValues ==
    { [kind |-> "camera", fps |-> fps, pixel_format |-> f, acquisition_mode |-> m] :
        fps \in {10, 30}, f \in PixelFormats \cup {None}, m \in AcquisitionModes \cup {None} }
    \cup { [kind |-> "spray", crop_bed_id |-> 0, pdm_config_files |-> files, channel_map |-> map] :
             files \in FileMaps, map \in CodecChannelMaps }
    \cup { [kind |-> "lighting", crop_bed_id |-> 0, pdm_config_files |-> files] :
             files \in FileMaps }
    \cup { [kind |-> "camera_array", crop_bed_id |-> 0, camera_config_files |-> files] :
             files \in FileMaps }
    \cup { [kind |-> "pdm", address |-> 30, output_channels_config |-> files] :
             files \in FileMaps }

\* `serde_yaml::to_writer(file, &config)`: the documents that can be written
\* for a configuration, none when a serialiser panics.
Documents(cfg) ==
    CASE cfg.kind = "camera" ->
           LET f == SerialiseOption(cfg.pixel_format, SerialisePixelFormat)
               m == SerialiseOption(cfg.acquisition_mode, SerialiseAcquisitionMode)
           IN  IF f = Unhandled \/ m = Unhandled THEN {}
               ELSE { [kind |-> "camera", fps |-> cfg.fps, pixel_format |-> f,
                       acquisition_mode |-> m] }
      [] cfg.kind = "spray" ->
           { [kind |-> "spray", crop_bed_id |-> cfg.crop_bed_id,
              pdm_config_files |-> files, channel_map |-> map] :
               files \in MapOrders(cfg.pdm_config_files),
               map \in IF cfg.channel_map.some
                       THEN { [null |-> FALSE, entries |-> e] :
                                e \in MapOrders(cfg.channel_map.entries) }
                       ELSE { [null |-> TRUE, entries |-> << >>] } }
      [] cfg.kind = "lighting" ->
           { [kind |-> "lighting", crop_bed_id |-> cfg.crop_bed_id,
              pdm_config_files |-> files] :
               files \in MapOrders(cfg.pdm_config_files) }
      [] cfg.kind = "camera_array" ->
           { [kind |-> "camera_array", crop_bed_id |-> cfg.crop_bed_id,
              camera_config_files |-> files] :
               files \in MapOrders(cfg.camera_config_files) }
      [] cfg.kind = "pdm" ->
           { [kind |-> "pdm", address |-> cfg.address,
              output_channels_config |-> files] :
               files \in ordered_u8_map(cfg.output_channels_config) }

\* `<Config>::from_file`: the configuration read from a document, none when
\* a visitor returns Err (`expect("Failed to parse config file into
\* struct")`).
ParseDocument(doc) ==
    CASE doc.kind = "camera" ->
           LET f == ParseOption(doc.pixel_format, ParsePixelFormat)
               m == ParseOption(doc.acquisition_mode, ParseAcquisitionMode)
           IN  IF f = Unhandled \/ m = Unhandled THEN {}
               ELSE { [kind |-> "camera", fps |-> doc.fps, pixel_format |-> f,
                       acquisition_mode |-> m] }
      [] doc.kind = "spray" ->
           { [kind |-> "spray", crop_bed_id |-> doc.crop_bed_id,
              pdm_config_files |-> ParseMap(doc.pdm_config_files),
              channel_map |-> IF doc.channel_map.null THEN NoMap
                              ELSE SomeMap(ParseMap(doc.channel_map.entries))] }
      [] doc.kind = "lighting" ->
           { [kind |-> "lighting", crop_bed_id |-> doc.crop_bed_id,
              pdm_config_files |-> ParseMap(doc.pdm_config_files)] }
      [] doc.kind = "camera_array" ->
           { [kind |-> "camera_array", crop_bed_id |-> doc.crop_bed_id,
              camera_config_files |-> ParseMap(doc.camera_config_files)] }
      [] doc.kind = "pdm" ->
           { [kind |-> "pdm", address |-> doc.address,
              output_channels_config |-> ParseMap(doc.output_channels_config)] }

\* `serde_yaml::to_writer(file, &write_config).expect("Failed to write yaml")`
Serialise ==
    /\ codec.pc = "config"
    /\ \/ /\ Documents(codec.config) = {}
          /\ codec' = [codec EXCEPT !.pc = "panicked"]
       \/ \E doc \in Documents(codec.config) :
              codec' = [codec EXCEPT !.pc = "document", !.document = doc]
    /\ UNCHANGED codec_apart

\* `let read_config = <Config>::from_file(..)`
Parse ==
    /\ codec.pc = "document"
    /\ \/ /\ ParseDocument(codec.document) = {}
          /\ codec' = [codec EXCEPT !.pc = "failed"]
       \/ \E read \in ParseDocument(codec.document) :
              codec' = [codec EXCEPT !.pc = "parsed", !.parsed = read]
    /\ UNCHANGED codec_apart

InitCodec ==
    /\ StartedCore(0, {0, 1}, NoMap, {}, 0)
    /\ light = LightIdle
    /\ conns = << >>
    /\ ArrayIdle
    /\ build = [pc |-> "idle"]
    /\ waiters = << >>
    /\ \E cfg \in ConfigValues :
           codec = [pc |-> "config", config |-> cfg, document |-> Null, parsed |-> None]

NextCodec == Serialise \/ Parse

SpecCodec == InitCodec /\ [][NextCodec]_vars

\* C32: every configuration of every kind is written, read back, and the
\* configuration read equals the one written.
C32_RoundTrip ==
    /\ codec.pc \notin {"panicked", "failed"}
    /\ codec.pc = "parsed" => codec.parsed = codec.config

\* ------------------------------------------------------------------------
\* An unending stream of commands.  Times are kept relative to the start of
\* the current 100 ms slot of the clock: when the clock enters the next slot
\* every time of the state is moved back by one slot, so that a behaviour
\* of any length visits finitely many states.  A time more than
\* StreamPastMs before the slot is kept at that distance: the program
\* compares it only with `now` (an entry is past, a heartbeat is due).
\* ------------------------------------------------------------------------
\* Length of a slot, and the oldest time that is told apart, in milliseconds.
StreamSlotMs == 100
StreamPastMs == 600
\* Commands waiting for the mutex, and entries queued, at any one time.
MaxStreamTasks == 1
MaxStreamQueue == 2

\* A time moved back by `shift`.
Rebased(t, shift) ==
    IF t - shift < 0 - Millis(StreamPastMs) THEN 0 - Millis(StreamPastMs)
    ELSE t - shift
RebasedEntry(e, shift) ==
    IF e = NoMessage THEN e
    ELSE [e EXCEPT !.time_to_fire = Rebased(@, shift),
                   !.original_spray_starts = Rebased(@, shift),
                   !.original_spray_ending = Rebased(@, shift)]
RebasedCommand(m, shift) ==
    [m EXCEPT !.start_spray_time = Rebased(@, shift),
              !.end_spray_time = Rebased(@, shift)]

\* The clock moves to the next instant, as in Tick.
StreamTick ==
    /\ ~ticked
    /\ ticked' = TRUE
    /\ \E t \in TimePoints :
          /\ t > clock
          /\ \A u \in TimePoints : u > clock => t <= u
          /\ LET shift == IF t >= Millis(StreamSlotMs) THEN Millis(StreamSlotMs) ELSE 0
             IN  /\ clock' = t - shift
                 /\ queue' = { RebasedEntry(e, shift) : e \in queue }
                 /\ message' = RebasedEntry(message, shift)
                 /\ last_fire' = Rebased(last_fire, shift)
                 /\ tasks' = [i \in DOMAIN tasks |-> RebasedCommand(tasks[i], shift)]
    \* The records kept of the last sample of Utc::now(), of the last entry
    \* actuated and of the frames received are not carried across instants.
    /\ utc_now' = 0
    /\ fired' = NoMessage
    /\ fired_max' = 0
    /\ pdm_last_rx' = [p \in DOMAIN pdm_last_rx |-> 0]
    /\ UNCHANGED <<pdms, channel_map, holder, pc, sent, spawned, log,
                   energised, inserting, boot, rest>>

\* Commands of the stream: a 100 ms spray of one channel of either PDM that
\* starts two slots after the current one.
StreamInbound ==
    { WeedMessage(<<c>>, Millis(2 * StreamSlotMs), Millis(3 * StreamSlotMs)) :
        c \in {0, 12} }

\* accept + handle_connection up to `power.lock().await`, as in Receive; the
\* commands of the stream are not counted.
StreamReceive(m) ==
    /\ Len(tasks) < MaxStreamTasks
    /\ Cardinality(queue) + 2 * Len(tasks) + 2 <= MaxStreamQueue
    /\ IF IsFresh(m, clock)
       THEN /\ tasks' = Append(tasks, m)
            /\ UNCHANGED log
       ELSE /\ log' = log \cup {"ignored"}
            /\ UNCHANGED tasks
    /\ UNCHANGED <<clock, pdms, channel_map, queue, holder, pc, message,
                   utc_now, last_fire, sent, pdm_last_rx, spawned, ticked,
                   energised, fired, fired_max, inserting, boot, rest>>

StreamIngest == \E m \in StreamInbound : StreamReceive(m)

InitStream == Startup(0, {0, 1}, NoMap)

NextStream ==
    \/ StreamTick
    \/ Lock
    \/ Peek
    \/ Send
    \/ HeartbeatCheck
    \/ Beat
    \/ StreamIngest
    \/ Insert

SpecStream == InitStream /\ [][NextStream]_vars

\* Time passes, the firing task is polled, and every handle_connection task
\* is granted the mutex.
StreamRuns ==
    /\ WF_vars(StreamTick)
    /\ FiringRuns
    /\ WF_vars(Insert)

SpecStreamFair == SpecStream /\ StreamRuns

\* C33: every channel at duty 100 is later set to duty 0, whatever commands
\* keep arriving.
C33_NoChannelLeftEnergised ==
    \A ch \in {0, 1} \X {1} : (ch \in energised) ~> (ch \notin energised)

\* ------------------------------------------------------------------------
\* Entries that were due when they were enqueued
\* ------------------------------------------------------------------------
\* C34: with a queue whose entries were all enqueued before their fire_time
\* and a firing loop that keeps running, an entry leaves the queue only by
\* being actuated: none is discarded as past.
C34_DueEntryIsActuated ==
    [][\A e \in queue \ queue' :
          /\ pc = "send"
          /\ fired' = e]_vars

\* ------------------------------------------------------------------------
\* The staleness check and the insertion
\* ------------------------------------------------------------------------
\* C35: every entry is inserted with a fire_time later than the time of its
\* insertion.
C35_InsertedEntriesAreDue ==
    [][\A e \in queue' \ queue : e.time_to_fire > clock]_vars

\* ------------------------------------------------------------------------
\* Channel maps whose entries name a PDM
\* ------------------------------------------------------------------------
\* Number of commands that pass the staleness check in one such behaviour.
MaxRouteTasks == 1

\* A map whose entries name the second PDM for wired channels 5 and 6:
\* `channel_map: Option<HashMap<u8, (u8, u8)>>` holds any pair of bytes.
CrossedMap == [p \in 1..2 |-> <<p + 4, 1>>]
RouteMaps == { SomeMap(HarnessMap), SomeMap(CrossedMap) }

RouteInbound ==
    { WeedMessage(<<0>>, Millis(200), Millis(300)),
      WeedMessage(<<0, 1>>, Millis(200), Millis(300)) }

InitRoute == \E map \in RouteMaps : Startup(0, {0, 1}, map)

IngestRoute == \E m \in RouteInbound : Receive(m, MaxRouteTasks)

NextRoute ==
    \/ Tick
    \/ Lock
    \/ Peek
    \/ Send
    \/ HeartbeatCheck
    \/ Beat
    \/ IngestRoute
    \/ Insert

SpecRoute == InitRoute /\ [][NextRoute]_vars

\* C36: when an entry is fired, every channel of it that is the wired
\* channel of a map entry is actuated by a frame sent to the PDM that the
\* map entry names.
C36_ActuatedOnMappedPdm ==
    [][(pc = "send" /\ pc' # "send" /\ channel_map.some) =>
          \A k \in 1..Len(message.channels) :
             \A p \in DOMAIN channel_map.entries :
                channel_map.entries[p][1] = message.channels[k] =>
                   \E f \in 1..Len(NewFrames) :
                      NewFrames[f].pdm = channel_map.entries[p][2]]_vars

\* ------------------------------------------------------------------------
\* Inbound channel values over the whole range of a byte
\* ------------------------------------------------------------------------
\* Number of commands that pass the staleness check in one such behaviour.
MaxByteTasks == 1

\* `channels_to_open: Vec<u8>`: the last channel of each block, the first
\* value after the second block, and u8::MAX.
ByteChannels == {11, 23, 24, 255}
ByteInbound ==
    { WeedMessage(<<c>>, Millis(200), Millis(300)) : c \in ByteChannels }
    \cup { WeedMessage(<<0, 24>>, Millis(200), Millis(300)) }

InitByte == \E map \in ChannelMaps : Startup(0, {0, 1}, map)

IngestByte == \E m \in ByteInbound : Receive(m, MaxByteTasks)

NextByte ==
    \/ Tick
    \/ Lock
    \/ Peek
    \/ Send
    \/ HeartbeatCheck
    \/ Beat
    \/ IngestByte
    \/ Insert

SpecByte == InitByte /\ [][NextByte]_vars

\* C37: every channel number of every frame passed to actuate_channels, for
\* an entry or for a heartbeat, lies in 1..12.
C37_ChannelsWithinBlock ==
    [][(pc = "send" \/ pc = "beat") =>
          \A f \in 1..Len(NewFrames) :
             \A j \in 1..Len(NewFrames[f].channels) :
                NewFrames[f].channels[j] \in (1..BLOCK)]_vars

\* ------------------------------------------------------------------------
\* Lighting connections whose peer closes them
\* ------------------------------------------------------------------------
\* Reads of 0 bytes that are counted on one connection.
MaxZeroReads == 2

\* The peer closes the connection after writing its stream.
LightHangup(c) ==
    /\ c \in DOMAIN light.conns
    /\ ~light.conns[c].closed
    /\ light' = [light EXCEPT !.conns[c].closed = TRUE]
    /\ UNCHANGED <<spray_core, boot, conns, array, setup>>

\* `read_until(b'\n')` returns Ok(0) at the end of the stream: the body under
\* `if bytes_read != 0` is skipped and the `loop` starts over.
LightReadZero(c) ==
    /\ c \in DOMAIN light.conns
    /\ light.conns[c].pc = "read"
    /\ light.conns[c].lines = << >>
    /\ light.conns[c].closed
    /\ light.conns[c].zero_reads < MaxZeroReads
    /\ light' = [light EXCEPT !.conns[c].zero_reads = @ + 1]
    /\ UNCHANGED <<spray_core, boot, conns, array, setup>>

LightPeerCloses == \E c \in DOMAIN light.conns : LightHangup(c)
LightReadsEnd == \E c \in DOMAIN light.conns : LightReadZero(c)

NextHangup ==
    \/ LightAccept
    \/ LightReadLine
    \/ LightTakeGuard
    \/ LightApplyMessage
    \/ LightPeerCloses
    \/ LightReadsEnd

SpecHangup == InitLight /\ [][NextHangup]_vars

\* C38: a read that returns 0 bytes is the last iteration of the handler's
\* loop: it is the first such read and the task has ended after it.
C38_HandlerEndsAtEndOfStream ==
    [][\A c \in DOMAIN light.conns :
          light'.conns[c].zero_reads > light.conns[c].zero_reads =>
             /\ light.conns[c].zero_reads = 0
             /\ light'.conns[c].pc = "returned"]_vars

\* ------------------------------------------------------------------------
\* A camera worker that terminates abnormally
\* ------------------------------------------------------------------------
\* Where CameraController::start can panic: `create_stream().expect(..)` and
\* `start_acquisition().expect(..)` before the start barrier; in the loop the
\* `panic!` on the white-balance command and `software_trigger().expect(..)`
\* at its head, and `image_channel.send(payload).unwrap()` after the pop.
FailurePoints == {"setup", "head", "pop"}

\* One worker panics: its thread unwinds, which drops its Sender; it never
\* calls `barrier.wait()` again.
Fail(w) ==
    /\ w \in DOMAIN workers
    /\ workers[w].pc \in FailurePoints
    /\ \A o \in DOMAIN workers : workers[o].pc # "panicked"
    /\ workers' = [workers EXCEPT ![w].pc = "panicked"]
    /\ channel' = [channel EXCEPT !.senders = @ \ {w}]
    /\ UNCHANGED <<clock, cores, setup, barrier, stop_signal, writer, writes>>

WorkerFails == \E w \in DOMAIN workers : Fail(w)

NextCrash ==
    \/ WorkerSetup
    \/ WorkerArrive
    \/ WorkerLeave
    \/ WorkerHead
    \/ WorkerPop
    \/ WorkerWake
    \/ StartReturns
    \/ Stop
    \/ WriterReceive
    \/ WriterEnd
    \/ WorkerFails

SpecCrash == InitArray /\ [][NextCrash]_vars

SpecCrashFair == SpecCrash /\ WorkersRun /\ WriterRuns

\* C39: once stop is signalled, every worker that has not panicked returns
\* and the writer returns, also when one worker has panicked.
C39_NoRendezvousDeadlock ==
    stop_signal ~>
       /\ \A w \in DOMAIN workers : workers[w].pc \in {"returned", "panicked"}
       /\ writer.pc = "returned"

\* ------------------------------------------------------------------------
\* The mutex of the spray core with its wait queue, with the firing task
\* running and commands arriving at any time.  `tokio::sync::Mutex` grants the guard in the order of the
\* requests: a guard that is dropped while requests wait is assigned to the
\* oldest of them, and a request made meanwhile joins the end of the queue.
\* In `waiters` the firing task is "fire" and a handle_connection task is
\* "task"; the tasks that wait are the first ones of `tasks`, in the order of
\* their requests.
\* ------------------------------------------------------------------------
\* Number of commands that pass the staleness check in one such behaviour.
MaxFifoTasks == 2

\* Time after which the clock is not followed any further, in milliseconds:
\* the commands are fired and a heartbeat has been due by then.
FifoHorizonMs == 600

FifoTick == clock < Millis(FifoHorizonMs) /\ Tick

\* Commands for one channel of either PDM.
FifoInbound ==
    { WeedMessage(<<c>>, Millis(200), Millis(300)) : c \in {0, 12} }

fifo_apart == <<boot, light, conns, array, build, codec>>

\* Variant of the grant in which the guard goes to whoever asks first once it
\* is free.
GrantedAnyone(who) == holder = "none"

\* The guard is free and is not assigned to an older request.
Granted(who) ==
    /\ holder = "none"
    /\ IF waiters = << >> THEN TRUE ELSE Head(waiters) = who

\* The wait queue once `who` has the guard.
Served(who) ==
    IF waiters # << >> /\ Head(waiters) = who THEN Tail(waiters) ELSE waiters

\* Number of handle_connection tasks in the wait queue.
Waiting == Cardinality({ k \in DOMAIN waiters : waiters[k] = "task" })

\* `tasks` with its i-th task moved behind the tasks that wait already.
Queued(i) ==
    SubSeq(tasks, 1, Waiting) \o << tasks[i] >>
    \o SubSeq(tasks, Waiting + 1, i - 1) \o SubSeq(tasks, i + 1, Len(tasks))

\* `power_processing.lock().await` polled while the guard is not to be had:
\* the firing task joins the wait queue.
FiringWaits ==
    /\ pc = "lock"
    /\ ~Granted("fire")
    /\ \A k \in DOMAIN waiters : waiters[k] # "fire"
    /\ waiters' = Append(waiters, "fire")
    /\ UNCHANGED <<clock, pdms, channel_map, queue, holder, pc, message,
                   utc_now, last_fire, sent, pdm_last_rx, tasks, spawned, log,
                   ticked, energised, fired, fired_max, inserting, fifo_apart>>

\* `power_processing.lock().await` returns the guard, as in Lock.
FiringLocks ==
    /\ ticked' = FALSE
    /\ pc = "lock"
    /\ Granted("fire")
    /\ holder' = "fire"
    /\ waiters' = Served("fire")
    /\ pc' = "peek"
    /\ sent' = << >>
    /\ UNCHANGED <<clock, pdms, channel_map, queue, message, utc_now,
                   last_fire, pdm_last_rx, tasks, spawned, log, energised,
                   fired, fired_max, inserting, fifo_apart>>

\* `power.lock().await` polled while the guard is not to be had: the task
\* joins the wait queue.
TaskWaits(i) ==
    /\ i \in DOMAIN tasks
    /\ i > Waiting
    /\ ~(holder = "none" /\ waiters = << >>)
    /\ waiters' = Append(waiters, "task")
    /\ tasks' = Queued(i)
    /\ UNCHANGED <<clock, pdms, channel_map, queue, holder, pc, message,
                   utc_now, last_fire, sent, pdm_last_rx, spawned, log,
                   ticked, energised, fired, fired_max, inserting, fifo_apart>>

\* `power.lock().await` returns the guard, as in TaskLock: to the oldest
\* request, or to a task that finds the mutex free and nobody waiting.
TaskLocks(i) ==
    /\ i \in DOMAIN tasks
    /\ Granted("task")
    /\ IF waiters = << >> THEN TRUE ELSE i = 1
    /\ waiters' = Served("task")
    /\ tasks' = Remove(tasks, i)
    /\ IF MapMiss(tasks[i].channels_to_open, channel_map)
       THEN /\ log' = log \cup {"panicked"}
            /\ UNCHANGED <<holder, inserting>>
       ELSE /\ holder' = "task"
            /\ inserting' = [active |-> TRUE,
                             todo |-> PushOrder(tasks[i], channel_map)]
            /\ UNCHANGED log
    /\ UNCHANGED <<clock, pdms, channel_map, queue, pc, message, utc_now,
                   last_fire, sent, pdm_last_rx, spawned, ticked, energised,
                   fired, fired_max, fifo_apart>>

\* The handle_connection task of the command for channel c.
TaskOf(c) == { i \in DOMAIN tasks : tasks[i].channels_to_open = << c >> }

\* accept + handle_connection up to `power.lock().await`, with at most one
\* command for a channel waiting at a time.
FifoReceive(m) ==
    /\ \A i \in DOMAIN tasks : tasks[i].channels_to_open # m.channels_to_open
    /\ Receive(m, MaxFifoTasks)

\* The runtime polls the firing task, and the task of a command.
FiringPolled == FiringWaits \/ FiringLocks
TaskPolled(c) == \E i \in TaskOf(c) : TaskWaits(i) \/ TaskLocks(i)

FifoIngest == \E m \in FifoInbound : FifoReceive(m)
FifoRequest == \E i \in DOMAIN tasks : TaskWaits(i)
FifoAcquire == \E i \in DOMAIN tasks : TaskLocks(i)

NextFifo ==
    \/ FifoTick
    \/ FiringWaits
    \/ FiringLocks
    \/ Peek
    \/ Send
    \/ HeartbeatCheck
    \/ Beat
    \/ FifoIngest
    \/ FifoRequest
    \/ FifoAcquire
    \/ TaskPush
    \/ TaskUnlock

SpecFifo == Init /\ [][NextFifo]_vars

\* The runtime keeps polling every task that can run: the
\* firing task, which never ends, and each handle_connection task until it
\* has dropped the guard.
FifoRuns ==
    /\ WF_vars(FiringPolled)
    /\ WF_vars(Peek)
    /\ WF_vars(Send)
    /\ WF_vars(HeartbeatCheck)
    /\ WF_vars(Beat)
    /\ \A c \in {0, 12} : WF_vars(TaskPolled(c))
    /\ WF_vars(TaskPush)
    /\ WF_vars(TaskUnlock)

SpecFifoFair == SpecFifo /\ FifoRuns

\* The task of the command for channel c has the guard and has pushed none of
\* its entries yet.
C40_Entered(c) ==
    /\ inserting.active
    /\ holder = "task"
    /\ Len(inserting.todo) = 2
    /\ \A k \in DOMAIN inserting.todo : inserting.todo[k].channels = << c + 1 >>

\* C40: every handle_connection task that has passed the staleness check
\* gets the guard, pushes its entries and drops the guard, and the firing task
\* gets the guard back whenever it asks for it.
C40_NoStarvation ==
    /\ \A c \in {0, 12} : (TaskOf(c) # {}) ~> C40_Entered(c)
    /\ inserting.active ~> (inserting = Idle /\ holder # "task")
    /\ (pc = "lock") ~> (holder = "fire")

\* A task holds the guard while the firing task waits for it and another
\* task waits behind the firing task.
C40_Witness ==
    /\ holder = "task"
    /\ inserting.active
    /\ waiters = << "fire", "task" >>

====
